---- MODULE Spec2Model ----
(***************************************************************************)
(* Model of the ElementaryWatson translation-resolution core:              *)
(*   LocaleService.getCurrentLocale / loadInlangSettings                   *)
(*   TranslationRepository.loadTranslations                                *)
(*   TranslationService.getTranslation / getNestedValue /                  *)
(*     processParaglideVariant / searchKeyInAllLocales /                   *)
(*     processTranslationCallsWithWarnings                                 *)
(*   EditorService.processDocument                                         *)
(*                                                                         *)
(* Strings that the code inspects character by character (translation keys *)
(* and translation values) are sequences of one-character strings.  JSON   *)
(* values are tagged records of one shape, so that any two values can be   *)
(* compared.  Locale codes are never taken apart and stay TLA+ strings.    *)
(***************************************************************************)
EXTENDS Integers, Sequences, FiniteSets, TLC

VARIABLES
    override,           \* user setting elementaryWatson.defaultLocale
    hasWorkspace,       \* the document belongs to a workspace folder
    settingsFile,       \* project.inlang/settings.json on disk
    files,              \* locale-data file on disk, per locale code
    calls,              \* call sites found in the document text
    pc,                 \* position of processDocument
    currentLocale,      \* local of processDocument
    translations,       \* local of processDocument
    idx,                \* loop index of processTranslationCallsWithWarnings
    currentTranslation, \* local of the loop body
    results,            \* local `results` of the resolution pass
    published,          \* results handed to decorations / CodeLens
    text,               \* document text given to findTranslationCalls
    scanned,            \* call sites findTranslationCalls returned
    now,                \* clock, in units of 100 ms
    realtimeUpdates,    \* setting elementaryWatson.realtimeUpdates
    updateDelay,        \* setting elementaryWatson.updateDelay, in clock units
    documentUpdateTimeouts, \* ExtensionActivator: document -> timer handle
    liveTimers,         \* timers of the runtime that were set and not cleared
    activeDoc,          \* document of vscode.window.activeTextEditor
    sidebarFile,        \* SidebarTreeProvider.currentFilePath
    sidebarKeys,        \* SidebarTreeProvider.translationData.length
    clearTimeout,       \* SidebarTreeProvider.clearTimeout, NoTimer for null
    listening,          \* the listeners in context.subscriptions are not disposed
    lastEvent,          \* the event whose handler ran last
    ran,                \* the processDocument calls that handler made
    dialog,             \* the message that handler or step showed, "" for none
    docText,            \* TextDocument of a.js in the extension host
    hostEvents,         \* tasks of the event loop not yet dispatched
    jobQueue,           \* promise jobs of the event loop, first in first out
    started,            \* number of processDocument calls begun
    lastRead,           \* version returned by the latest document.getText()
    shown,              \* decorations and CodeLens results of a.js
    xpc,                \* position of extractSelectedText
    selection,          \* text of editor.selection
    selectedText,       \* local selectedText of extractSelectedText
    xKey,               \* the key extractSelectedText works with
    attempts,           \* loop counter i of generateUniqueKey
    interpolationType,  \* what the user picked: "template", "code", "" for none
    otherIdx,           \* position of the for-loop of addToLocaleFiles
    written,            \* the file writes of this extraction: locale and time
    failedAt,           \* locale whose updateLocaleFile threw, "" for none
    outcome,            \* what extractSelectedText returned
    replaced,           \* text put in place of the selection
    editorLanguage,     \* editor.document.languageId of the extraction's editor
    pathPattern         \* what getTranslationPathPattern returned last, "" before

\* state of one run of processDocument
passVars == <<override, hasWorkspace, settingsFile, files, calls, pc,
              currentLocale, translations, idx, currentTranslation, results,
              published>>

\* state of the scanner
scanVars == <<text, scanned>>

\* state of the ExtensionActivator and of what it listens to
syncVars == <<now, realtimeUpdates, updateDelay, documentUpdateTimeouts,
              liveTimers, activeDoc, sidebarFile, sidebarKeys, clearTimeout,
              listening, lastEvent, ran, dialog>>

\* state of the event loop of the extension host
loopVars == <<docText, hostEvents, jobQueue, started, lastRead, shown>>

\* state of one run of ExtractionService.extractSelectedText
extractVars == <<xpc, selection, selectedText, xKey, attempts,
                 interpolationType, otherIdx, written, failedAt, outcome,
                 replaced, editorLanguage, pathPattern>>

vars == <<passVars, scanVars, syncVars, loopVars, extractVars>>

(***************************************************************************)
(* Bounds                                                                  *)
(***************************************************************************)
MaxCalls == 2

(***************************************************************************)
(* JavaScript values                                                       *)
(***************************************************************************)
Str(s) == [t |-> "str", s |-> s, n |-> 0, kv |-> <<>>]
Num(n) == [t |-> "num", s |-> <<>>, n |-> n, kv |-> <<>>]
Bool(b) == [t |-> "bool", s |-> <<>>, n |-> IF b THEN 1 ELSE 0, kv |-> <<>>]
JNull == [t |-> "null", s |-> <<>>, n |-> 0, kv |-> <<>>]
Undefined == [t |-> "undefined", s |-> <<>>, n |-> 0, kv |-> <<>>]
Obj(kv) == [t |-> "obj", s |-> <<>>, n |-> 0, kv |-> kv]
Arr(kv) == [t |-> "arr", s |-> <<>>, n |-> 0, kv |-> kv]
Fn(name) == [t |-> "fn", s |-> name, n |-> 0, kv |-> <<>>]
Threw == [t |-> "threw", s |-> <<>>, n |-> 0, kv |-> <<>>]

\* JavaScript truthiness (the `if (x)` and `x && ...` tests of the code)
Truthy(v) ==
    CASE v.t = "str" -> v.s # <<>>
      [] v.t = "num" -> v.n # 0
      [] v.t = "bool" -> v.n = 1
      [] v.t \in {"null", "undefined"} -> FALSE
      [] OTHER -> TRUE

Digits == <<"0", "1", "2", "3", "4", "5", "6", "7", "8", "9">>

\* a property name that is a one-digit array index
IsArrayIndex(k) == Len(k) = 1 /\ \E d \in 1..10 : Digits[d] = k[1]

IndexOf(k) == (CHOOSE d \in 1..10 : Digits[d] = k[1]) - 1

S_length == <<"l", "e", "n", "g", "t", "h">>
S_constructor == <<"c", "o", "n", "s", "t", "r", "u", "c", "t", "o", "r">>
S_name == <<"n", "a", "m", "e">>
S_match == <<"m", "a", "t", "c", "h">>
S_Object == <<"O", "b", "j", "e", "c", "t">>
S_Array == <<"A", "r", "r", "a", "y">>
S_String == <<"S", "t", "r", "i", "n", "g">>
S_Number == <<"N", "u", "m", "b", "e", "r">>
S_Boolean == <<"B", "o", "o", "l", "e", "a", "n">>
S_Function == <<"F", "u", "n", "c", "t", "i", "o", "n">>

HasOwn(v, k) == \E i \in 1..Len(v.kv) : v.kv[i][1] = k

OwnValue(v, k) == v.kv[CHOOSE i \in 1..Len(v.kv) : v.kv[i][1] = k][2]

ConstructorOf(v) ==
    CASE v.t = "obj" -> Fn(S_Object)
      [] v.t = "arr" -> Fn(S_Array)
      [] v.t = "str" -> Fn(S_String)
      [] v.t = "num" -> Fn(S_Number)
      [] v.t = "bool" -> Fn(S_Boolean)
      [] OTHER -> Fn(S_Function)

\* JavaScript property read v[k] on a value that is neither null nor
\* undefined: own properties first, then the inherited `constructor`
Get(v, k) ==
    CASE v.t \in {"obj", "arr"} /\ HasOwn(v, k) -> OwnValue(v, k)
      [] v.t = "arr" /\ k = S_length -> Num(Len(v.kv))
      [] v.t = "str" /\ IsArrayIndex(k) /\ IndexOf(k) < Len(v.s) ->
            Str(<<v.s[IndexOf(k) + 1]>>)
      [] v.t = "str" /\ k = S_length -> Num(Len(v.s))
      [] v.t = "fn" /\ k = S_name -> Str(v.s)
      [] k = S_constructor -> ConstructorOf(v)
      [] OTHER -> Undefined

\* String.prototype.includes('.')
IncludesDot(key) == \E i \in 1..Len(key) : key[i] = "."

\* String.prototype.split('.')
RECURSIVE Split(_)
Split(key) ==
    IF ~IncludesDot(key) THEN <<key>>
    ELSE LET i == CHOOSE j \in 1..Len(key) :
                    key[j] = "." /\ \A h \in 1..(j - 1) : key[h] # "."
         IN <<SubSeq(key, 1, i - 1)>> \o Split(SubSeq(key, i + 1, Len(key)))

\* String(v) as used by the template literal `${variantValue}*`, for JSON
\* values (a plain object prints as [object Object], an array as its
\* elements joined by commas)
RECURSIVE ToStr(_)
RECURSIVE JoinFrom(_, _)
JoinFrom(kv, i) ==
    IF i > Len(kv) THEN <<>>
    ELSE (IF i > 1 THEN <<",">> ELSE <<>>)
         \o (IF kv[i][2].t \in {"null", "undefined"} THEN <<>> ELSE ToStr(kv[i][2]))
         \o JoinFrom(kv, i + 1)

ToStr(v) ==
    CASE v.t = "str" -> v.s
      [] v.t = "num" -> <<Digits[(v.n % 10) + 1]>>
      [] v.t = "bool" -> IF v.n = 1 THEN <<"t", "r", "u", "e">>
                         ELSE <<"f", "a", "l", "s", "e">>
      [] v.t = "arr" -> JoinFrom(v.kv, 1)
      [] OTHER -> <<"[", "o", "b", "j", "e", "c", "t", " ">> \o S_Object \o <<"]">>

(***************************************************************************)
(* Files on disk                                                           *)
(***************************************************************************)
MissingFile == [kind |-> "missing", doc |-> JNull]
MalformedFile == [kind |-> "malformed", doc |-> JNull]
JsonFile(doc) == [kind |-> "json", doc |-> doc]

\* JSON.parse of a file's text: throws on malformed text; an object's
\* properties end up in JavaScript property order (array-index names first,
\* ascending, then the remaining names in the order of the text)
RECURSIVE ParseValue(_)
ParseValue(v) ==
    IF v.t \notin {"obj", "arr"} THEN v
    ELSE LET parsed == [i \in 1..Len(v.kv) |-> <<v.kv[i][1], ParseValue(v.kv[i][2])>>]
             isIdx(i) == IsArrayIndex(parsed[i][1])
             idxPos == {i \in 1..Len(parsed) : isIdx(i)}
             rank(i) == IF isIdx(i)
                        THEN Cardinality({j \in idxPos :
                                 IndexOf(parsed[j][1]) < IndexOf(parsed[i][1])}) + 1
                        ELSE Cardinality(idxPos)
                             + Cardinality({j \in 1..i : ~isIdx(j)})
         IN [t |-> v.t, s |-> v.s, n |-> v.n,
             kv |-> [r \in 1..Len(parsed) |->
                        parsed[CHOOSE i \in 1..Len(parsed) : rank(i) = r]]]

JSONparse(file) == IF file.kind = "json" THEN ParseValue(file.doc) ELSE Threw

\* loadTranslations without its try/catch: a parse error escapes
loadTranslations_NoCatch(file) ==
    IF file.kind = "missing" THEN JNull ELSE JSONparse(file)

\* TranslationRepository.loadTranslations, with the try/catch that
\* turns every exception into null
loadTranslations(file) ==
    IF file.kind = "missing" THEN JNull
    ELSE LET parsed == JSONparse(file)
         IN IF parsed = Threw THEN JNull ELSE parsed

(***************************************************************************)
(* LocaleService                                                           *)
(***************************************************************************)
Unset == "<unset>"

\* package.json: the declared default of elementaryWatson.defaultLocale
DeclaredDefaultLocale == "en"

\* vscode config.get('defaultLocale'): the user's value, else the declared
\* default of the setting
ConfigGet(ov) == IF ov = Unset THEN DeclaredDefaultLocale ELSE ov

\* settings.json content; baseLocale "" stands for an absent or empty field
SettingsJson(base, hasLocales, locales) ==
    [kind |-> "json", baseLocale |-> base, hasLocales |-> hasLocales,
     locales |-> locales]
MissingSettings == [kind |-> "missing", baseLocale |-> "", hasLocales |-> FALSE,
                    locales |-> <<>>]
MalformedSettings == [kind |-> "malformed", baseLocale |-> "", hasLocales |-> FALSE,
                      locales |-> <<>>]
NullSettings == [kind |-> "null", baseLocale |-> "", hasLocales |-> FALSE,
                 locales |-> <<>>]

\* LocaleService.loadInlangSettings: null when the file is missing or does
\* not parse
loadInlangSettings(sf) == IF sf.kind = "json" THEN sf ELSE NullSettings

\* LocaleService.getCurrentLocale
getCurrentLocale(ov, ws, sf) ==
    LET configLocale == ConfigGet(ov)
        inlangSettings == loadInlangSettings(sf)
    IN IF configLocale # "" THEN configLocale
       ELSE IF ws /\ inlangSettings # NullSettings /\ inlangSettings.baseLocale # ""
            THEN inlangSettings.baseLocale
            ELSE "en"

(***************************************************************************)
(* TranslationService                                                      *)
(***************************************************************************)
\* TranslationService.getNestedValue: reduce over the path segments
RECURSIVE ReduceGet(_, _, _)
ReduceGet(current, segs, i) ==
    IF i > Len(segs) THEN current
    ELSE ReduceGet(IF Truthy(current) /\ Get(current, segs[i]) # Undefined
                   THEN Get(current, segs[i]) ELSE Undefined,
                   segs, i + 1)

getNestedValue(obj, path) == ReduceGet(obj, Split(path), 1)

\* Object.values(x): the own enumerable property values, in property order
ObjectValues(x) ==
    CASE x.t \in {"obj", "arr"} -> [i \in 1..Len(x.kv) |-> x.kv[i][2]]
      [] x.t = "str" -> [i \in 1..Len(x.s) |-> Str(<<x.s[i]>>)]
      [] OTHER -> <<>>

\* TranslationService.processParaglideVariant
processParaglideVariant(variantArray) ==
    IF variantArray.t # "arr" \/ Len(variantArray.kv) = 0 THEN JNull
    ELSE LET firstVariant == variantArray.kv[1][2]
         IN IF ~Truthy(firstVariant) \/ firstVariant.t \notin {"obj", "arr"}
               \/ ~Truthy(Get(firstVariant, S_match))
            THEN JNull
            ELSE LET matchValues == ObjectValues(Get(firstVariant, S_match))
                 IN IF Len(matchValues) = 0 THEN JNull ELSE matchValues[1]

\* getTranslation displaying numbers and booleans as text
getTranslation_StringifiesScalars(trs, key) ==
    IF ~Truthy(trs) THEN JNull
    ELSE LET value == IF IncludesDot(key) THEN getNestedValue(trs, key)
                      ELSE Get(trs, key)
         IN CASE value.t \in {"undefined", "null"} -> JNull
              [] value.t \in {"str", "num", "bool"} -> Str(ToStr(value))
              [] value.t = "arr" /\ Truthy(processParaglideVariant(value)) ->
                    Str(ToStr(processParaglideVariant(value)) \o <<"*">>)
              [] OTHER -> JNull

\* TranslationService.getTranslation
getTranslation(trs, key) ==
    IF ~Truthy(trs) THEN JNull
    ELSE LET value == IF IncludesDot(key) THEN getNestedValue(trs, key)
                      ELSE Get(trs, key)
         IN CASE value.t \in {"undefined", "null"} -> JNull
              [] value.t = "str" -> value
              [] value.t = "arr" /\ Truthy(processParaglideVariant(value)) ->
                    Str(ToStr(processParaglideVariant(value)) \o <<"*">>)
              [] OTHER -> JNull

\* the locale list searchKeyInAllLocales iterates
availableLocales(sf) ==
    LET inlangSettings == loadInlangSettings(sf)
    IN IF inlangSettings # NullSettings /\ inlangSettings.hasLocales
       THEN inlangSettings.locales ELSE <<"en">>

NoSearchResult == [found |-> FALSE, translation |-> JNull, locale |-> ""]

\* the for-loop of searchKeyInAllLocales, from position i of the list
RECURSIVE SearchFrom(_, _, _, _, _)
RECURSIVE SearchFrom_AbortOnUnloadable(_, _, _, _, _)

\* the search giving up at the first locale whose document does not load
SearchFrom_AbortOnUnloadable(locs, fs, key, cur, i) ==
    IF i > Len(locs) THEN NoSearchResult
    ELSE IF locs[i] = cur THEN SearchFrom(locs, fs, key, cur, i + 1)
    ELSE LET trs == loadTranslations(fs[locs[i]])
         IN IF ~Truthy(trs) THEN NoSearchResult
            ELSE IF Truthy(getTranslation(trs, key))
            THEN [found |-> TRUE, translation |-> getTranslation(trs, key),
                  locale |-> locs[i]]
            ELSE SearchFrom(locs, fs, key, cur, i + 1)

SearchFrom(locs, fs, key, cur, i) ==
    IF i > Len(locs) THEN NoSearchResult
    ELSE IF locs[i] = cur THEN SearchFrom(locs, fs, key, cur, i + 1)
    ELSE LET trs == loadTranslations(fs[locs[i]])
         IN IF Truthy(trs) /\ Truthy(getTranslation(trs, key))
            THEN [found |-> TRUE, translation |-> getTranslation(trs, key),
                  locale |-> locs[i]]
            ELSE SearchFrom(locs, fs, key, cur, i + 1)

\* TranslationService.searchKeyInAllLocales
searchKeyInAllLocales(sf, fs, key, cur) ==
    SearchFrom(availableLocales(sf), fs, key, cur, 1)

(***************************************************************************)
(* Inputs                                                                  *)
(***************************************************************************)
LocaleCodes == {"en", "es", "fr"}

K_a == <<"a">>
K_b == <<"b">>
K_ab == <<"a", ".", "b">>
K_a0 == <<"a", ".", "0">>
K_cn == S_constructor \o <<".">> \o S_name

Keys == {K_a, K_b, K_ab, K_a0, K_cn}

\* {"a": "hi", "b": ""}
D1 == Obj(<< <<K_a, Str(<<"h", "i">>)>>, <<K_b, Str(<<>>)>> >>)
\* {"a": {"b": "yo"}, "b": 7}
D2 == Obj(<< <<K_a, Obj(<< <<K_b, Str(<<"y", "o">>)>> >>)>>, <<K_b, Num(7)>> >>)
\* {"a": [{"match": {"n": "one"}}], "b": "bee"}
D3 == Obj(<< <<K_a, Arr(<< <<<<"0">>,
            Obj(<< <<S_match, Obj(<< <<<<"n">>, Str(<<"o", "n", "e">>)>> >>)>> >>)>> >>)>>,
         <<K_b, Str(<<"b", "e", "e">>)>> >>)

FileContents == {MissingFile, MalformedFile, JsonFile(D1), JsonFile(D2), JsonFile(D3)}

SettingsContents ==
    {MissingSettings, MalformedSettings,
     SettingsJson("es", TRUE, <<"en", "es", "fr">>),
     SettingsJson("", FALSE, <<>>)}

Overrides == {Unset, "", "fr"}

\* a call site as findTranslationCalls reports it; the i-th call of a
\* document starts after the (i-1)-th
CallSite(key, i) == [methodName |-> key, start |-> 10 * i, end |-> 10 * i + 5]

\* the key sequences of at most n calls, each key at most once
RECURSIVE KeySeqs(_)
KeySeqs(n) ==
    IF n = 0 THEN {<<>>}
    ELSE KeySeqs(n - 1) \cup
         UNION {{Append(q, k) : k \in Keys \ {q[i] : i \in 1..Len(q)}} :
                   q \in {r \in KeySeqs(n - 1) : Len(r) = n - 1}}

CallSeqs == {[i \in 1..Len(q) |-> CallSite(q[i], i)] : q \in KeySeqs(MaxCalls)}

\* no timer handle (a Map.get that yields undefined); a handle records when
\* the timer was set, its delay, and how many changes it has absorbed
NoTimer == [setAt |-> 0, delay |-> 0, n |-> 0]

NoDoc == "<none>"

\* an event: its kind, its document, what it carries (the content changes of
\* a change event, the timer handle that expired or that a save cleared) and
\* the new value of a setting
NoEvent == [kind |-> "none", doc |-> NoDoc, arg |-> <<>>, value |-> ""]

\* no extraction under way
ExtractionIdle ==
    /\ xpc = "idle"
    /\ selection = <<>>
    /\ selectedText = <<>>
    /\ xKey = <<>>
    /\ attempts = 0
    /\ interpolationType = ""
    /\ otherIdx = 0
    /\ written = <<>>
    /\ failedAt = ""
    /\ outcome = "none"
    /\ replaced = <<>>
    /\ editorLanguage = "javascript"
    /\ pathPattern = ""

\* the event loop at rest: no document text read yet, nothing queued
NoShown == [start |-> 0, version |-> 0, results |-> <<>>]
LoopIdle ==
    /\ docText = [version |-> 0, calls |-> <<>>]
    /\ hostEvents = <<>>
    /\ jobQueue = <<>>
    /\ started = 0
    /\ lastRead = 0
    /\ shown = NoShown

\* the activator at rest: nothing scheduled, nothing handled yet
ActivatorIdle ==
    /\ now = 0
    /\ realtimeUpdates = TRUE
    /\ updateDelay = 3
    /\ documentUpdateTimeouts = {}
    /\ liveTimers = {}
    /\ activeDoc = NoDoc
    /\ sidebarFile = NoDoc
    /\ sidebarKeys = 0
    /\ clearTimeout = NoTimer
    /\ listening = TRUE
    /\ lastEvent = NoEvent
    /\ dialog = ""
    /\ ran = <<>>

(***************************************************************************)
(* EditorService.processDocument                                           *)
(***************************************************************************)
Init ==
    /\ override \in Overrides
    /\ hasWorkspace \in BOOLEAN
    /\ settingsFile \in SettingsContents
    /\ files \in [LocaleCodes -> FileContents]
    /\ calls \in CallSeqs
    /\ pc = "start"
    /\ currentLocale = ""
    /\ translations = Undefined
    /\ idx = 0
    /\ currentTranslation = Undefined
    /\ results = <<>>
    /\ published = <<>>
    /\ text = <<>>
    /\ scanned = <<>>
    /\ ActivatorIdle
    /\ LoopIdle
    /\ ExtractionIdle

\* the `translations || {}` argument of processTranslationCallsWithWarnings
PassedTranslations(trs) == IF Truthy(trs) THEN trs ELSE Obj(<<>>)

\* the loop body keeping the looked-up value in an Unresolved result
ResolveOne_KeepsFalsyValue(call, trs, sf, fs, cur) ==
    LET found == getTranslation(trs, call.methodName)
        searchResult == searchKeyInAllLocales(sf, fs, call.methodName, cur)
    IN IF Truthy(found)
       THEN [call |-> call, translationValue |-> found,
             warningType |-> "null", foundInLocale |-> ""]
       ELSE IF searchResult.found
       THEN [call |-> call, translationValue |-> searchResult.translation,
             warningType |-> "missingLocale", foundInLocale |-> searchResult.locale]
       ELSE [call |-> call, translationValue |-> found,
             warningType |-> "noLocale", foundInLocale |-> ""]

\* the loop body without the search of the other locales
ResolveOne_NoFallback(call, trs, sf, fs, cur) ==
    LET found == getTranslation(trs, call.methodName)
    IN IF Truthy(found)
       THEN [call |-> call, translationValue |-> found,
             warningType |-> "null", foundInLocale |-> ""]
       ELSE [call |-> call, translationValue |-> JNull,
             warningType |-> "noLocale", foundInLocale |-> ""]

\* one iteration of the loop of processTranslationCallsWithWarnings
ResolveOne(call, trs, sf, fs, cur) ==
    LET found == getTranslation(trs, call.methodName)
        searchResult == searchKeyInAllLocales(sf, fs, call.methodName, cur)
    IN IF Truthy(found)
       THEN [call |-> call, translationValue |-> found,
             warningType |-> "null", foundInLocale |-> ""]
       ELSE IF searchResult.found
       THEN [call |-> call, translationValue |-> searchResult.translation,
             warningType |-> "missingLocale", foundInLocale |-> searchResult.locale]
       ELSE [call |-> call, translationValue |-> JNull,
             warningType |-> "noLocale", foundInLocale |-> ""]

\* processDocument up to the call of processTranslationCallsWithWarnings
ProcessDocumentStart ==
    /\ pc = "start"
    /\ IF ~hasWorkspace
       THEN /\ pc' = "done"
            /\ UNCHANGED <<currentLocale, translations, idx, results, published>>
       ELSE IF Len(calls) = 0
       THEN /\ published' = <<>>
            /\ pc' = "done"
            /\ UNCHANGED <<currentLocale, translations, idx, results>>
       ELSE /\ currentLocale' = getCurrentLocale(override, hasWorkspace, settingsFile)
            /\ translations' = loadTranslations(files[currentLocale'])
            /\ idx' = 1
            /\ results' = <<>>
            /\ pc' = "resolve"
            /\ UNCHANGED published
    /\ UNCHANGED <<scanVars, syncVars, loopVars, extractVars>>
    /\ UNCHANGED <<override, hasWorkspace, settingsFile, files, calls,
                   currentTranslation>>

\* the loop pushing a result only when the key was found somewhere
ResolveCall_DropsUnresolved ==
    /\ pc = "resolve"
    /\ idx <= Len(calls)
    /\ currentTranslation' =
          getTranslation(PassedTranslations(translations), calls[idx].methodName)
    /\ LET r == ResolveOne(calls[idx], PassedTranslations(translations),
                           settingsFile, files, currentLocale)
       IN results' = IF r.warningType = "noLocale" THEN results
                     ELSE Append(results, r)
    /\ idx' = idx + 1
    /\ UNCHANGED <<scanVars, syncVars, loopVars, extractVars>>
    /\ UNCHANGED <<override, hasWorkspace, settingsFile, files, calls, pc,
                   currentLocale, translations, published>>

\* processTranslationCallsWithWarnings: the loop body for calls[idx]
ResolveCall ==
    /\ pc = "resolve"
    /\ idx <= Len(calls)
    /\ currentTranslation' =
          getTranslation(PassedTranslations(translations), calls[idx].methodName)
    /\ results' = Append(results,
          ResolveOne(calls[idx], PassedTranslations(translations), settingsFile,
                     files, currentLocale))
    /\ idx' = idx + 1
    /\ UNCHANGED <<scanVars, syncVars, loopVars, extractVars>>
    /\ UNCHANGED <<override, hasWorkspace, settingsFile, files, calls, pc,
                   currentLocale, translations, published>>

\* processDocument after the resolution pass: decorations and CodeLens
\* receive the results
PublishResults ==
    /\ pc = "resolve"
    /\ idx > Len(calls)
    /\ published' = results
    /\ pc' = "done"
    /\ UNCHANGED <<scanVars, syncVars, loopVars, extractVars>>
    /\ UNCHANGED <<override, hasWorkspace, settingsFile, files, calls,
                   currentLocale, translations, idx, currentTranslation, results>>

Next == ProcessDocumentStart \/ ResolveCall \/ PublishResults

Spec == Init /\ [][Next]_vars

(***************************************************************************)
(* Vocabulary of the properties                                            *)
(***************************************************************************)
\* processDocument got as far as resolving the active locale
PassRan == pc \in {"resolve", "done"} /\ hasWorkspace /\ Len(calls) > 0

\* the project config file is present and parseable
ConfigPresent == settingsFile.kind = "json"

\* the user has set a non-empty override
OverrideSet == override \notin {Unset, ""}

\* the current-locale document the resolution pass is given
EngineDocument == PassedTranslations(translations)

\* what get yields for a key in the document of locale l
ValueIn(l, key) == getTranslation(loadTranslations(files[l]), key)

\* positions of the configured locale list, other than the active locale,
\* whose document yields a non-null value for the key
NonNullHits(key) ==
    {j \in 1..Len(availableLocales(settingsFile)) :
        /\ availableLocales(settingsFile)[j] # currentLocale
        /\ ValueIn(availableLocales(settingsFile)[j], key) # JNull}

\* the same, for a value that is a non-empty string
NonEmptyHits(key) ==
    {j \in 1..Len(availableLocales(settingsFile)) :
        /\ availableLocales(settingsFile)[j] # currentLocale
        /\ Truthy(ValueIn(availableLocales(settingsFile)[j], key))}

Min(S) == CHOOSE x \in S : \A y \in S : x <= y

Unloadable(l) == files[l].kind \in {"missing", "malformed"}

(***************************************************************************)
(* Active-locale resolution                                                *)
(***************************************************************************)
\* C1: the active locale follows a strict priority: a non-empty user
\* override wins whatever the project config says; otherwise the baseLocale
\* of a present, parseable project config; otherwise the literal "en".
C1_LocalePriority ==
    PassRan =>
        currentLocale =
            IF OverrideSet THEN override
            ELSE IF ConfigPresent /\ settingsFile.baseLocale # ""
                 THEN settingsFile.baseLocale
                 ELSE "en"

\* C2: when the user never set the override (the setting holds its declared
\* default) and the project config declares baseLocale "es", the active
\* locale is "es".
C2_UnsetOverrideUsesBaseLocale ==
    (PassRan /\ override = Unset /\ ConfigPresent /\ settingsFile.baseLocale = "es")
        => currentLocale = "es"

(***************************************************************************)
(* Resolution pass                                                         *)
(***************************************************************************)
\* C3: every call site whose key get resolves to a non-null string in the
\* active locale's document (the empty string included) is Resolved with
\* exactly that string, without consulting another locale.
C3_FoundInActiveIsResolved ==
    PassRan =>
        \A i \in 1..Len(results) :
            LET v == getTranslation(EngineDocument, calls[i].methodName)
            IN v # JNull =>
                /\ results[i].warningType = "null"
                /\ results[i].translationValue = v
                /\ results[i].foundInLocale = ""

\* C4: when the key is not found in the active locale, the fallback search
\* goes through the configured locales in declared order, skips the active
\* locale and stops at the first locale whose document yields a non-null
\* value: the result is ResolvedElsewhere naming that locale, with that value.
C4_FallbackStopsAtFirstNonNull ==
    PassRan =>
        \A i \in 1..Len(results) :
            LET key == calls[i].methodName
                locs == availableLocales(settingsFile)
            IN (getTranslation(EngineDocument, key) = JNull /\ NonNullHits(key) # {})
                => /\ results[i].warningType = "missingLocale"
                   /\ results[i].foundInLocale = locs[Min(NonNullHits(key))]
                   /\ results[i].translationValue =
                          ValueIn(locs[Min(NonNullHits(key))], key)

\* C5: every result has exactly one of the statuses Resolved,
\* ResolvedElsewhere, Unresolved; ResolvedElsewhere names a locale that is
\* not the active one; Unresolved has value null and the other two have a
\* non-null value.
C5_StatusesExclusive ==
    \A i \in 1..Len(results) :
        LET r == results[i]
        IN /\ r.warningType \in {"null", "missingLocale", "noLocale"}
           /\ (r.warningType = "missingLocale") <=> (r.foundInLocale # "")
           /\ r.warningType = "missingLocale" => r.foundInLocale # currentLocale
           /\ (r.warningType = "noLocale") <=> (r.translationValue = JNull)

C5_Witness ==
    /\ Len(results) = 2
    /\ results[1].warningType = "missingLocale"
    /\ results[2].warningType = "noLocale"
    /\ getTranslation(EngineDocument, calls[2].methodName) # JNull

\* C6: the pass returns exactly one result per input call site, in the order
\* of the input call sites, whatever each lookup found.
C6_OneResultPerCallInOrder ==
    /\ PassRan => /\ Len(results) = idx - 1
                  /\ \A i \in 1..Len(results) : results[i].call = calls[i]
    /\ (PassRan /\ pc = "done") =>
            /\ Len(published) = Len(calls)
            /\ \A i \in 1..Len(calls) : published[i].call = calls[i]

C6_Witness ==
    /\ pc = "done"
    /\ Len(published) = 2
    /\ published[1].warningType = "noLocale"
    /\ published[2].warningType = "null"
    /\ published[1].call.methodName # published[2].call.methodName

\* C7 as stated: if the active locale's data file is missing, every call
\* site of the document becomes Unresolved.
C7_MissingActiveFileAllUnresolved ==
    (PassRan /\ files[currentLocale].kind = "missing") =>
        \A i \in 1..Len(results) : results[i].warningType = "noLocale"

\* C7 (amended): if the active locale's data file is missing, the pass runs
\* against an empty document: a call site whose key the empty document does
\* not resolve is ResolvedElsewhere when another configured locale's document
\* yields a non-empty value for the key, and Unresolved otherwise.
C7_MissingActiveFileFallsBack ==
    (PassRan /\ files[currentLocale].kind = "missing") =>
        \A i \in 1..Len(results) :
            ~Truthy(getTranslation(Obj(<<>>), calls[i].methodName)) =>
                results[i].warningType =
                    IF NonEmptyHits(calls[i].methodName) # {}
                    THEN "missingLocale" ELSE "noLocale"

C7_Witness ==
    /\ pc = "done"
    /\ PassRan
    /\ files[currentLocale].kind = "missing"
    /\ Len(published) = 2
    /\ published[1].warningType = "missingLocale"
    /\ published[2].warningType = "noLocale"

\* C8: in the fallback search a locale whose document cannot be loaded
\* (file missing or malformed) counts as no match and the search goes on to
\* the next configured locale; the pass still produces a result for that
\* call site and for every later one.
C8_UnloadableLocaleSkipped ==
    PassRan =>
        /\ \A i \in 1..Len(results) :
            LET key == calls[i].methodName
                locs == availableLocales(settingsFile)
                others == {j \in 1..Len(locs) : locs[j] # currentLocale}
            IN getTranslation(EngineDocument, key) = JNull =>
                /\ \A k \in others :
                      ( /\ ~Unloadable(locs[k])
                        /\ Truthy(ValueIn(locs[k], key))
                        /\ \E j \in others : j < k /\ Unloadable(locs[j])
                        /\ \A j \in others : j < k =>
                              Unloadable(locs[j]) \/ ValueIn(locs[j], key) = JNull )
                      => /\ results[i].warningType = "missingLocale"
                         /\ results[i].foundInLocale = locs[k]
                         /\ results[i].translationValue = ValueIn(locs[k], key)
                /\ (\A j \in others : Unloadable(locs[j]))
                      => results[i].warningType = "noLocale"
        /\ pc = "done" => Len(published) = Len(calls)

C8_Witness ==
    /\ pc = "done"
    /\ currentLocale = "en"
    /\ availableLocales(settingsFile) = <<"en", "es", "fr">>
    /\ files["es"].kind = "malformed"
    /\ Len(published) = 2
    /\ published[1].warningType = "missingLocale"
    /\ published[1].foundInLocale = "fr"
    /\ published[2].warningType = "null"

(***************************************************************************)
(* TranslationStore                                                        *)
(***************************************************************************)
\* C9: load returns null and never raises when the locale-data file is
\* missing or does not parse; the caller cannot tell the two apart.
C9_LoadFailsSoft ==
    PassRan =>
        /\ translations # Threw
        /\ Unloadable(currentLocale) => translations = JNull

C9_Witness ==
    /\ PassRan
    /\ files[currentLocale].kind = "malformed"
    /\ translations = JNull

\* a segment of the path is missing, or a node on the way is not a nested
\* object (a string, a number, a variant list)
RECURSIVE PathBroken(_, _, _)
PathBroken(node, segs, i) ==
    IF i > Len(segs) THEN FALSE
    ELSE \/ node.t # "obj"
         \/ ~HasOwn(node, segs[i])
         \/ PathBroken(OwnValue(node, segs[i]), segs, i + 1)

\* C10: for a key containing the path separator, get walks the document
\* segment by segment and yields null whenever a segment is missing or an
\* intermediate node is not a container.
C10_BrokenPathYieldsNull ==
    (PassRan /\ idx > 1) =>
        LET key == calls[idx - 1].methodName
        IN (IncludesDot(key) /\ PathBroken(EngineDocument, Split(key), 1))
              => currentTranslation = JNull

(***************************************************************************)
(* Value shapes: processDocument over documents holding variant lists and  *)
(* unsupported node shapes                                                 *)
(***************************************************************************)
S_1item == <<"1", " ", "i", "t", "e", "m">>

\* a variant list of one variant whose match mapping is {"n": first}
OneVariant(first) ==
    Arr(<< <<<<"0">>, Obj(<< <<S_match, Obj(<< <<<<"n">>, Str(first)>> >>)>> >>)>> >>)

\* {"a": [{"match": {"n": "1 item"}}], "b": true}
V1 == Obj(<< <<K_a, OneVariant(S_1item)>>, <<K_b, Bool(TRUE)>> >>)
\* {"a": [], "b": false}
V2 == Obj(<< <<K_a, Arr(<<>>)>>, <<K_b, Bool(FALSE)>> >>)
\* {"a": [{"x": "y"}], "b": ["x", "y"]}
V3 == Obj(<< <<K_a, Arr(<< <<<<"0">>, Obj(<< <<<<"x">>, Str(<<"y">>)>> >>)>> >>)>>,
         <<K_b, Arr(<< <<<<"0">>, Str(<<"x">>)>>, <<<<"1">>, Str(<<"y">>)>> >>)>> >>)
\* {"a": [{"match": {}}], "b": {"a": "deep"}}
V4 == Obj(<< <<K_a, Arr(<< <<<<"0">>, Obj(<< <<S_match, Obj(<<>>)>> >>)>> >>)>>,
         <<K_b, Obj(<< <<K_a, Str(<<"d", "e", "e", "p">>)>> >>)>> >>)
\* {"a": [{"match": {"n": ""}}], "b": 7}
V5 == Obj(<< <<K_a, OneVariant(<<>>)>>, <<K_b, Num(7)>> >>)
\* {"a": {"b": [{"match": {"n": "one", "m": "two"}}, {"match": {"n": "uno"}}]},
\*  "b": [["x"]]}
V6 == Obj(<< <<K_a, Obj(<< <<K_b, Arr(<<
                <<<<"0">>, Obj(<< <<S_match,
                    Obj(<< <<<<"n">>, Str(<<"o", "n", "e">>)>>,
                           <<<<"m">>, Str(<<"t", "w", "o">>)>> >>)>> >>)>>,
                <<<<"1">>, Obj(<< <<S_match,
                    Obj(<< <<<<"n">>, Str(<<"u", "n", "o">>)>> >>)>> >>)>> >>)>> >>)>>,
         <<K_b, Arr(<< <<<<"0">>, Arr(<< <<<<"0">>, Str(<<"x">>)>> >>)>> >>)>> >>)

ShapeFiles == {JsonFile(V1), JsonFile(V2), JsonFile(V3), JsonFile(V4),
               JsonFile(V5), JsonFile(V6)}

\* the document under "en" holds the shapes; "es" is the other locale
InitShapes ==
    /\ override = Unset
    /\ hasWorkspace \in BOOLEAN
    /\ settingsFile \in {MissingSettings, SettingsJson("en", TRUE, <<"en", "es">>)}
    /\ files \in {f \in [LocaleCodes -> ShapeFiles \cup {MissingFile, JsonFile(D1), JsonFile(D3)}] :
                    /\ f["en"] \in ShapeFiles
                    /\ f["es"] \notin ShapeFiles
                    /\ f["fr"] = MissingFile}
    /\ calls \in CallSeqs
    /\ pc = "start"
    /\ currentLocale = ""
    /\ translations = Undefined
    /\ idx = 0
    /\ currentTranslation = Undefined
    /\ results = <<>>
    /\ published = <<>>
    /\ text = <<>>
    /\ scanned = <<>>
    /\ ActivatorIdle
    /\ LoopIdle
    /\ ExtractionIdle

SpecShapes == InitShapes /\ [][Next]_vars

\* the node a key designates in a document: the property itself, or the end
\* of the dotted path
ResolvedNode(doc, key) ==
    IF IncludesDot(key) THEN getNestedValue(doc, key) ELSE Get(doc, key)

\* the first element of a list is an object with a match mapping
HasMatchMapping(node) ==
    /\ Len(node.kv) > 0
    /\ node.kv[1][2].t = "obj"
    /\ HasOwn(node.kv[1][2], S_match)
    /\ OwnValue(node.kv[1][2], S_match).t = "obj"

\* the match mapping of the first variant, as its list of name/value pairs
FirstMatch(node) == OwnValue(node.kv[1][2], S_match).kv

\* the call the loop has just handled
LastKey == calls[idx - 1].methodName

\* C11: when the resolved node is a variant list, get returns the first
\* match value of the first variant with "*" appended; an empty list, or a
\* list whose first element has no match mapping or an empty one, yields
\* null.  The document is the one that was loaded: the projection leaves it
\* unchanged.
C11_VariantProjection ==
    (PassRan /\ idx > 1) =>
        LET node == ResolvedNode(EngineDocument, LastKey)
        IN node.t = "arr" =>
            /\ IF ~HasMatchMapping(node) \/ Len(FirstMatch(node)) = 0
               THEN currentTranslation = JNull
               ELSE FirstMatch(node)[1][2].t = "str" =>
                       currentTranslation =
                           Str(FirstMatch(node)[1][2].s \o <<"*">>)
            /\ translations = loadTranslations(files[currentLocale])

\* a node that is neither a string nor a variant list: a number, a boolean,
\* a nested object, or a list whose first element has no match mapping
UnsupportedShape(node) ==
    \/ node.t \in {"num", "bool", "obj"}
    \/ node.t = "arr" /\ Len(node.kv) > 0 /\ ~HasOwn(node.kv[1][2], S_match)

\* C12: get yields null for a resolved node that is neither a string nor a
\* variant list; the key counts as not found in the active locale and the
\* result is the one of the fallback search.
C12_UnsupportedShapeIsNull ==
    (PassRan /\ idx > 1) =>
        (UnsupportedShape(ResolvedNode(EngineDocument, LastKey)) =>
            /\ currentTranslation = JNull
            /\ results[idx - 1].warningType \in {"missingLocale", "noLocale"}
            /\ NonEmptyHits(LastKey) # {} =>
                  results[idx - 1].warningType = "missingLocale"
            /\ NonNullHits(LastKey) = {} =>
                  results[idx - 1].warningType = "noLocale")

C12_Witness ==
    /\ pc = "done"
    /\ Len(published) = 2
    /\ published[1].call.methodName = K_b
    /\ Get(EngineDocument, K_b).t = "bool"
    /\ published[1].warningType = "missingLocale"
    /\ published[1].foundInLocale = "es"
    /\ published[2].call.methodName = K_a0
    /\ ResolvedNode(EngineDocument, K_a0).t = "obj"
    /\ published[2].warningType = "noLocale"

(***************************************************************************)
(* TranslationService.findTranslationCalls                                 *)
(*                                                                         *)
(* The text is a sequence of one-character strings; positions are 1-based  *)
(* here and the reported offsets are the 0-based offsets of the code: a    *)
(* match whose first character is text[p] and whose last is text[c] has    *)
(* start = p - 1 and end = c.                                              *)
(***************************************************************************)
Letters ==
    {"a", "b", "c", "d", "e", "f", "g", "h", "i", "j", "k", "l", "m", "n", "o",
     "p", "q", "r", "s", "t", "u", "v", "w", "x", "y", "z",
     "A", "B", "C", "D", "E", "F", "G", "H", "I", "J", "K", "L", "M", "N", "O",
     "P", "Q", "R", "S", "T", "U", "V", "W", "X", "Y", "Z"}

DigitChars == {Digits[d] : d \in 1..10}

\* \w, the class that decides \b
WordChars == Letters \cup DigitChars \cup {"_"}

\* [a-zA-Z_$] and [a-zA-Z0-9_$]
IdStart == Letters \cup {"_", "$"}
IdPart == IdStart \cup DigitChars

\* \s, as far as one-byte characters go
Whitespace == {" ", "\t", "\n", "\r", "\f"}

\* the grave accent U+0060, which cannot be written inside a TLA+ string
Backtick == "<U+0060>"

\* the three quote characters the bracket form accepts
QuoteChars == {"'", "\"", Backtick}

Max(S) == CHOOSE x \in S : \A y \in S : x >= y

\* a greedy class repetition from position p: the first position at or
\* after p whose character is not in the class (Len(t) + 1 at end of text)
SkipWhile(t, p, class) ==
    CHOOSE q \in p..(Len(t) + 1) :
        /\ q = Len(t) + 1 \/ t[q] \notin class
        /\ \A j \in p..(q - 1) : t[j] \in class

\* [^)]* from position p: the position of the first ")" at or after p
SkipToParen(t, p) ==
    CHOOSE q \in p..(Len(t) + 1) :
        /\ q = Len(t) + 1 \/ t[q] = ")"
        /\ \A j \in p..(q - 1) : t[j] # ")"

\* String.prototype.trim
Trim(str) ==
    LET keep == {j \in 1..Len(str) : str[j] \notin Whitespace}
    IN IF keep = {} THEN <<>> ELSE SubSeq(str, Min(keep), Max(keep))

\* \bm : an "m" that does not continue a word
WordStartM(t, p) ==
    /\ p <= Len(t)
    /\ t[p] = "m"
    /\ p = 1 \/ t[p - 1] \notin WordChars

\* \s*\(\s*([^)]*)\s*\) from position p: the opening parenthesis after
\* optional blanks and the first ")" after it; open = 0 when it does not match
CallTail(t, p) ==
    LET o == SkipWhile(t, p, Whitespace)
    IN IF o <= Len(t) /\ t[o] = "(" /\ SkipToParen(t, o + 1) <= Len(t)
       THEN [open |-> o, close |-> SkipToParen(t, o + 1)]
       ELSE [open |-> 0, close |-> 0]

NoMatch == [methodName |-> <<>>, params |-> <<>>, start |-> 0, end |-> 0,
            keyType |-> "none"]

\* flatPattern anchored at position p
FlatAt(t, p) ==
    IF /\ WordStartM(t, p)
       /\ p + 2 <= Len(t)
       /\ t[p + 1] = "."
       /\ t[p + 2] \in IdStart
    THEN LET ie == SkipWhile(t, p + 3, IdPart)
             tail == CallTail(t, ie)
         IN IF tail.open = 0 THEN NoMatch
            ELSE [methodName |-> SubSeq(t, p + 2, ie - 1),
                  params |-> Trim(SubSeq(t, tail.open + 1, tail.close - 1)),
                  start |-> p - 1, end |-> tail.close, keyType |-> "flat"]
    ELSE NoMatch

\* the positions where the quote opened at p + 2 can close: the same quote
\* character, a non-empty key without ' or " before it, "]" and a call after
\* it
NestedKeyEnds(t, p) ==
    {e \in (p + 4)..Len(t) :
        /\ t[e] = t[p + 2]
        /\ \A j \in (p + 3)..(e - 1) : t[j] \notin {"'", "\""}
        /\ e + 1 <= Len(t)
        /\ t[e + 1] = "]"
        /\ CallTail(t, e + 2).open # 0}

\* \bm\[ and an opening quote at position p
NestedOpens(t, p) ==
    /\ WordStartM(t, p)
    /\ p + 2 <= Len(t)
    /\ t[p + 1] = "["
    /\ t[p + 2] \in QuoteChars

\* nestedPattern anchored at position p; the key is the longest that matches
NestedAt(t, p) ==
    IF NestedOpens(t, p) /\ NestedKeyEnds(t, p) # {}
    THEN LET e == Max(NestedKeyEnds(t, p))
             tail == CallTail(t, e + 2)
         IN [methodName |-> SubSeq(t, p + 3, e - 1),
             params |-> Trim(SubSeq(t, tail.open + 1, tail.close - 1)),
             start |-> p - 1, end |-> tail.close, keyType |-> "nested"]
    ELSE NoMatch

MatchAt(keyType, t, p) == IF keyType = "flat" THEN FlatAt(t, p) ELSE NestedAt(t, p)

\* the while loop over pattern.exec: the leftmost match at or after
\* lastIndex, then on from the end of that match
RECURSIVE ExecAll(_, _, _)
ExecAll(keyType, t, lastIndex) ==
    LET at == {p \in (lastIndex + 1)..Len(t) : MatchAt(keyType, t, p) # NoMatch}
    IN IF at = {} THEN <<>>
       ELSE <<MatchAt(keyType, t, Min(at))>> \o
            ExecAll(keyType, t, MatchAt(keyType, t, Min(at)).end)

\* calls.sort((a, b) => a.start - b.start): stable insertion by start
RECURSIVE SortByStart(_)
SortByStart(cs) ==
    IF Len(cs) <= 1 THEN cs
    ELSE LET rest == SortByStart(SubSeq(cs, 1, Len(cs) - 1))
             last == cs[Len(cs)]
             before == {j \in 1..Len(rest) : rest[j].start <= last.start}
             k == IF before = {} THEN 0 ELSE Max(before)
         IN SubSeq(rest, 1, k) \o <<last>> \o SubSeq(rest, k + 1, Len(rest))

\* findTranslationCalls returning the calls in the order they were pushed
findTranslationCalls_Unsorted(t) ==
    ExecAll("flat", t, 0) \o ExecAll("nested", t, 0)

\* TranslationService.findTranslationCalls
findTranslationCalls(t) ==
    SortByStart(ExecAll("flat", t, 0) \o ExecAll("nested", t, 0))

(***************************************************************************)
(* Scanning: findTranslationCalls over texts put together from fragments   *)
(***************************************************************************)
MaxFragments == 4

\* pieces of source text: an open dot-form call, a closing parenthesis, an
\* open bracket-form call, a blank, a letter, and three complete calls
Fragments ==
    {<<"m", ".", "a", "(">>,
     <<")">>,
     <<"m", "[", "\"", "b", "\"", "]", "(">>,
     <<" ">>,
     <<"x">>,
     <<"m", ".", "b", "(", ")">>,
     <<"m", "[", "'", "a", ".", "b", "'", "]", "(", ")">>,
     <<"m", "[", Backtick, "a", Backtick, "]", "(", " ", "1", ")">>}

\* the texts made of at most n fragments
RECURSIVE Texts(_)
Texts(n) ==
    IF n = 0 THEN {<<>>}
    ELSE Texts(n - 1) \cup {t \o f : t \in Texts(n - 1), f \in Fragments}

InitScan ==
    /\ override = Unset
    /\ hasWorkspace = TRUE
    /\ settingsFile = MissingSettings
    /\ files = [l \in LocaleCodes |-> MissingFile]
    /\ calls = <<>>
    /\ pc = "start"
    /\ currentLocale = ""
    /\ translations = Undefined
    /\ idx = 0
    /\ currentTranslation = Undefined
    /\ results = <<>>
    /\ published = <<>>
    /\ text \in Texts(MaxFragments)
    /\ scanned = <<>>
    /\ ActivatorIdle
    /\ LoopIdle
    /\ ExtractionIdle

\* processDocument: translationCalls = findTranslationCalls(text)
ScanText ==
    /\ scanned' = findTranslationCalls(text)
    /\ UNCHANGED text
    /\ UNCHANGED <<passVars, syncVars, loopVars, extractVars>>

NextScan == ScanText

SpecScan == InitScan /\ [][NextScan]_vars

\* the call site is written in the text where it is reported: "m", then
\* either "." and the whole identifier, or "[", a quote, the key and the
\* same quote; the last character of the site is a ")"
WrittenAt(c) ==
    LET p == c.start + 1
        n == Len(c.methodName)
    IN /\ text[p] = "m"
       /\ n >= 1
       /\ text[c.end] = ")"
       /\ c.keyType \in {"flat", "nested"}
       /\ c.keyType = "flat" =>
             /\ text[p + 1] = "."
             /\ c.methodName = SubSeq(text, p + 2, p + 1 + n)
             /\ text[p + 2] \in IdStart
             /\ \A j \in (p + 2)..(p + 1 + n) : text[j] \in IdPart
             /\ text[p + 2 + n] \notin IdPart
       /\ c.keyType = "nested" =>
             /\ text[p + 1] = "["
             /\ text[p + 2] \in QuoteChars
             /\ c.methodName = SubSeq(text, p + 3, p + 2 + n)
             /\ text[p + 3 + n] = text[p + 2]

\* C13: scan returns the call sites of both forms (dot form: key = the
\* identifier; bracket form: key = the quoted contents) merged into one
\* sequence sorted by ascending start offset; every site ends after it
\* starts and lies inside the text.
C13_ScanMergedAndSorted ==
    /\ \A i \in 1..Len(scanned) :
          /\ 0 <= scanned[i].start
          /\ scanned[i].start < scanned[i].end
          /\ scanned[i].end <= Len(text)
          /\ WrittenAt(scanned[i])
    /\ \A i, j \in 1..Len(scanned) :
          i < j => scanned[i].start <= scanned[j].start
    /\ scanned # <<>> =>
          /\ Len(scanned) = Len(ExecAll("flat", text, 0)) + Len(ExecAll("nested", text, 0))
          /\ \A keyType \in {"flat", "nested"} :
                \A k \in 1..Len(ExecAll(keyType, text, 0)) :
                    \E i \in 1..Len(scanned) : scanned[i] = ExecAll(keyType, text, 0)[k]

\* a bracket-form call written before a dot-form call: the sort reorders
C13_Witness ==
    /\ Len(scanned) = 3
    /\ scanned[1].keyType = "nested"
    /\ scanned[1].methodName = <<"a", ".", "b">>
    /\ scanned[2].keyType = "flat"
    /\ scanned[2].methodName = K_b
    /\ scanned[3].keyType = "nested"
    /\ scanned[3].methodName = K_b

\* C14: no two call sites returned by scan overlap: of any two distinct
\* sites one ends at or before the other starts, also when one call is
\* written inside the argument list of another.
C14_NoOverlap ==
    \A i, j \in 1..Len(scanned) :
        i # j => \/ scanned[i].end <= scanned[j].start
                 \/ scanned[j].end <= scanned[i].start

(***************************************************************************)
(* ExtensionActivator: debounced content changes, saves, editor focus,     *)
(* settings changes and locale-data file watchers                          *)
(*                                                                         *)
(* Every handler runs to completion before the next event is taken.  A     *)
(* timer expires at its due time: the clock does not pass a due timer.     *)
(* An editor is always active and shows a source document or a locale-data *)
(* file, and every open document is shown in some editor.                  *)
(***************************************************************************)
MaxTime == 3
MaxBurst == 2

\* the values of updateDelay that occur: 100 ms (the minimum) and 200 ms
Delays == {1, 2}

SourceDocs == {"a.js", "b.ts"}
NotesDoc == "n.md"
LocaleDataDoc == "messages/en.json"
Docs == SourceDocs \cup {NotesDoc, LocaleDataDoc}

languageId ==
    [d \in Docs |-> CASE d = "a.js" -> "javascript"
                      [] d = "b.ts" -> "typescript"
                      [] d = NotesDoc -> "markdown"
                      [] OTHER -> "json"]

\* EditorService.isSupportedDocument
isSupportedDocument(d) ==
    languageId[d] \in {"javascript", "javascriptreact", "typescript",
                       "typescriptreact", "svelte"}

\* SidebarService.isTranslationFile: the path is a locale-data file path
isTranslationFile(d) == d = LocaleDataDoc

\* the call sites of the open documents: m.a() in a.js, m.b() in b.ts
DocCalls ==
    [d \in Docs |-> CASE d = "a.js" -> <<CallSite(K_a, 1)>>
                      [] d = "b.ts" -> <<CallSite(K_b, 1)>>
                      [] OTHER -> <<>>]

\* a content change of a TextDocumentChangeEvent
Change(lineSpan, rangeLength, inserted) ==
    [lines |-> lineSpan, rangeLength |-> rangeLength, text |-> inserted]

Insert(inserted) == Change(0, 0, inserted)

\* event.contentChanges of the change events that occur
ChangeEvents ==
    {<<>>,
     <<Insert(<<"x">>)>>,
     <<Insert(<<"(">>)>>,
     <<Insert(<<"m", ".">>)>>,
     <<Insert(<<"(", ")">>)>>,
     <<Insert(<<"\n">>)>>,
     <<Change(0, 1, <<>>)>>,
     <<Change(1, 4, <<>>)>>,
     <<Insert(<<"x">>), Insert(<<"a", "m", ".", "b">>)>>}

\* String.prototype.includes
Includes(str, pattern) ==
    \E i \in 1..(Len(str) - Len(pattern) + 1) :
        SubSeq(str, i, i + Len(pattern) - 1) = pattern

\* shouldUpdateForChange treating every non-empty event as relevant
shouldUpdateForChange_AnyChange(changes) == Len(changes) > 0

\* ExtensionActivator.shouldUpdateForChange
shouldUpdateForChange(changes) ==
    \E i \in 1..Len(changes) :
        \/ changes[i].lines > 0
        \/ Includes(changes[i].text, <<"\n">>)
        \/ Includes(changes[i].text, <<"\r">>)
        \/ changes[i].rangeLength > 0
        \/ Includes(changes[i].text, <<"m", ".">>)
        \/ Includes(changes[i].text, <<"(", ")">>)

\* EditorService.processDocument, as one call: what it resolves and shows
processDocument(d, cause, ov, sf, fs) ==
    IF Len(DocCalls[d]) = 0
    THEN [doc |-> d, cause |-> cause, locale |-> "", results |-> <<>>]
    ELSE LET cur == getCurrentLocale(ov, TRUE, sf)
             trs == loadTranslations(fs[cur])
         IN [doc |-> d, cause |-> cause, locale |-> cur,
             results |-> [i \in 1..Len(DocCalls[d]) |->
                 ResolveOne(DocCalls[d][i], PassedTranslations(trs), sf, fs, cur)]]

\* SidebarService.getAvailableLocales: the configured list, else the
\* locale files present, else "en"
RECURSIVE ExistingLocales(_, _, _)
ExistingLocales(fs, order, i) ==
    IF i > Len(order) THEN <<>>
    ELSE (IF fs[order[i]].kind = "missing" THEN <<>> ELSE <<order[i]>>)
         \o ExistingLocales(fs, order, i + 1)

getAvailableLocales(sf, fs) ==
    LET inlangSettings == loadInlangSettings(sf)
    IN IF inlangSettings # NullSettings /\ inlangSettings.hasLocales
       THEN inlangSettings.locales
       ELSE IF ExistingLocales(fs, <<"en", "es", "fr">>, 1) # <<>>
       THEN ExistingLocales(fs, <<"en", "es", "fr">>, 1)
       ELSE <<"en">>

\* SidebarService.getTranslationData(document).length: the keys called in
\* the document that have a translation in some locale
TranslationDataLength(cs, sf, fs) ==
    Cardinality({i \in 1..Len(cs) :
        \E j \in 1..Len(getAvailableLocales(sf, fs)) :
            LET trs == loadTranslations(fs[getAvailableLocales(sf, fs)[j]])
            IN Truthy(trs) /\ getTranslation(trs, cs[i].methodName) # JNull})

getTranslationDataLength(d, sf, fs) == TranslationDataLength(DocCalls[d], sf, fs)

\* SidebarTreeProvider.refresh(document, force): <<currentFilePath,
\* translationData.length>> afterwards
SidebarRefresh(d, force, sf, fs) ==
    IF ~force /\ isTranslationFile(d)
    THEN <<sidebarFile, sidebarKeys>>
    ELSE <<d, getTranslationDataLength(d, sf, fs)>>

Event(kind, d, arg, value) ==
    [kind |-> kind, doc |-> d, arg |-> arg, value |-> value]

\* the Map documentUpdateTimeouts is the set of its <<uri, handle>> entries
\* this.documentUpdateTimeouts.get(uri)
TimeoutOf(d) ==
    IF \E e \in documentUpdateTimeouts : e[1] = d
    THEN (CHOOSE e \in documentUpdateTimeouts : e[1] = d)[2]
    ELSE NoTimer

\* Map.set(uri, handle)
MapSet(map, d, handle) == {e \in map : e[1] # d} \cup {<<d, handle>>}

\* Map.delete(uri)
MapDelete(map, d) == {e \in map : e[1] # d}

\* the part of the environment the activator handlers leave alone
envVars == <<hasWorkspace, settingsFile, calls, pc, currentLocale, translations,
             idx, currentTranslation, results, published, text, scanned,
             listening, loopVars, extractVars>>

\* after activation: settings read, nothing scheduled, a.js active and
\* processed, the sidebar showing its keys
Activated ==
    /\ hasWorkspace = TRUE
    /\ settingsFile = SettingsJson("es", TRUE, <<"en", "es">>)
    /\ calls = <<>>
    /\ pc = "start"
    /\ currentLocale = ""
    /\ translations = Undefined
    /\ idx = 0
    /\ currentTranslation = Undefined
    /\ results = <<>>
    /\ published = <<>>
    /\ text = <<>>
    /\ scanned = <<>>
    /\ now = 0
    /\ documentUpdateTimeouts = {}
    /\ liveTimers = {}
    /\ activeDoc = "a.js"
    /\ sidebarFile = "a.js"
    /\ sidebarKeys = getTranslationDataLength("a.js", settingsFile, files)
    /\ clearTimeout = NoTimer
    /\ listening = TRUE
    /\ lastEvent = NoEvent
    /\ dialog = ""
    /\ ran = <<>>

\* the two settings of the debounce drawn at activation
InitDebounce ==
    /\ override = Unset
    /\ files = [l \in LocaleCodes |-> IF l = "en" THEN JsonFile(D1) ELSE MissingFile]
    /\ realtimeUpdates \in BOOLEAN
    /\ updateDelay \in Delays
    /\ Activated
    /\ LoopIdle
    /\ ExtractionIdle

\* onDidChangeTextDocument with a debounce that sets a timer without
\* clearing the one already set
ChangeDocument_NoClear(d, changes) ==
    /\ dialog' = ""
    /\ lastEvent' = Event("change", d, changes, "")
    /\ ran' = <<>>
    /\ IF realtimeUpdates /\ isSupportedDocument(d) /\ shouldUpdateForChange(changes)
       THEN /\ TimeoutOf(d).n < MaxBurst
            /\ LET handle == [setAt |-> now, delay |-> updateDelay,
                              n |-> TimeoutOf(d).n + 1]
               IN /\ liveTimers' = liveTimers \cup {<<d, handle>>}
                  /\ documentUpdateTimeouts' =
                         MapSet(documentUpdateTimeouts, d, handle)
       ELSE UNCHANGED <<liveTimers, documentUpdateTimeouts>>
    /\ UNCHANGED <<now, realtimeUpdates, updateDelay, activeDoc, sidebarFile,
                   sidebarKeys, clearTimeout, override, files, envVars>>

\* onDidChangeTextDocument with a handler that ignores the realtimeUpdates
\* setting
ChangeDocument_IgnoresSetting(d, changes) ==
    /\ dialog' = ""
    /\ lastEvent' = Event("change", d, changes, "")
    /\ ran' = <<>>
    /\ IF isSupportedDocument(d) /\ shouldUpdateForChange(changes)
       THEN /\ TimeoutOf(d).n < MaxBurst
            /\ LET handle == [setAt |-> now, delay |-> updateDelay,
                              n |-> TimeoutOf(d).n + 1]
               IN /\ liveTimers' = (liveTimers \ {<<d, TimeoutOf(d)>>})
                                       \cup {<<d, handle>>}
                  /\ documentUpdateTimeouts' =
                         MapSet(documentUpdateTimeouts, d, handle)
       ELSE UNCHANGED <<liveTimers, documentUpdateTimeouts>>
    /\ UNCHANGED <<now, realtimeUpdates, updateDelay, activeDoc, sidebarFile,
                   sidebarKeys, clearTimeout, override, files, envVars>>

\* onDidChangeTextDocument and debounceDocumentUpdate: a relevant change of
\* a supported document clears the document's timer and sets a new one
ChangeDocument(d, changes) ==
    /\ dialog' = ""
    /\ lastEvent' = Event("change", d, changes, "")
    /\ ran' = <<>>
    /\ IF realtimeUpdates /\ isSupportedDocument(d) /\ shouldUpdateForChange(changes)
       THEN /\ TimeoutOf(d).n < MaxBurst
            /\ LET handle == [setAt |-> now, delay |-> updateDelay,
                              n |-> TimeoutOf(d).n + 1]
               IN /\ liveTimers' = (liveTimers \ {<<d, TimeoutOf(d)>>})
                                       \cup {<<d, handle>>}
                  /\ documentUpdateTimeouts' =
                         MapSet(documentUpdateTimeouts, d, handle)
       ELSE UNCHANGED <<liveTimers, documentUpdateTimeouts>>
    /\ UNCHANGED <<now, realtimeUpdates, updateDelay, activeDoc, sidebarFile,
                   sidebarKeys, clearTimeout, override, files, envVars>>

\* the handles of the live timers of a document, and those that are due
TimersOf(d) == {t[2] : t \in {x \in liveTimers : x[1] = d}}
DueTimers(d) == {h \in TimersOf(d) : h.setAt + h.delay <= now}

\* the setTimeout callback of debounceDocumentUpdate, at the due time
TimerFires(d) ==
    /\ \E handle \in DueTimers(d) :
          /\ liveTimers' = liveTimers \ {<<d, handle>>}
          /\ dialog' = ""
          /\ lastEvent' = Event("timer", d, <<handle>>, "")
    /\ documentUpdateTimeouts' = MapDelete(documentUpdateTimeouts, d)
    /\ IF realtimeUpdates
       THEN /\ ran' = <<processDocument(d, "debounce", override, settingsFile, files)>>
            /\ sidebarFile' = SidebarRefresh(d, FALSE, settingsFile, files)[1]
            /\ sidebarKeys' = SidebarRefresh(d, FALSE, settingsFile, files)[2]
            /\ clearTimeout' = NoTimer
       ELSE /\ ran' = <<>>
            /\ UNCHANGED <<sidebarFile, sidebarKeys, clearTimeout>>
    /\ UNCHANGED <<now, realtimeUpdates, updateDelay, activeDoc, override, files,
                   envVars>>

\* the save handler without the clearTimeout
SaveDocument_KeepsTimer(d) ==
    /\ dialog' = ""
    /\ lastEvent' = Event("save", d,
                         IF TimeoutOf(d) # NoTimer THEN <<TimeoutOf(d)>> ELSE <<>>, "")
    /\ IF isSupportedDocument(d)
       THEN /\ ran' = <<processDocument(d, "save", override, settingsFile, files)>>
            /\ sidebarFile' = SidebarRefresh(d, FALSE, settingsFile, files)[1]
            /\ sidebarKeys' = SidebarRefresh(d, FALSE, settingsFile, files)[2]
            /\ clearTimeout' = NoTimer
       ELSE /\ ran' = <<>>
            /\ UNCHANGED <<sidebarFile, sidebarKeys, clearTimeout>>
    /\ UNCHANGED <<liveTimers, documentUpdateTimeouts>>
    /\ UNCHANGED <<now, realtimeUpdates, updateDelay, activeDoc, override, files,
                   envVars>>

\* onDidSaveTextDocument
SaveDocument(d) ==
    /\ dialog' = ""
    /\ lastEvent' = Event("save", d,
                         IF TimeoutOf(d) # NoTimer THEN <<TimeoutOf(d)>> ELSE <<>>, "")
    /\ IF isSupportedDocument(d)
       THEN /\ IF TimeoutOf(d) # NoTimer
               THEN /\ liveTimers' = liveTimers \ {<<d, TimeoutOf(d)>>}
                    /\ documentUpdateTimeouts' = MapDelete(documentUpdateTimeouts, d)
               ELSE UNCHANGED <<liveTimers, documentUpdateTimeouts>>
            /\ ran' = <<processDocument(d, "save", override, settingsFile, files)>>
            /\ sidebarFile' = SidebarRefresh(d, FALSE, settingsFile, files)[1]
            /\ sidebarKeys' = SidebarRefresh(d, FALSE, settingsFile, files)[2]
            /\ clearTimeout' = NoTimer
       ELSE /\ ran' = <<>>
            /\ UNCHANGED <<liveTimers, documentUpdateTimeouts, sidebarFile,
                           sidebarKeys, clearTimeout>>
    /\ UNCHANGED <<now, realtimeUpdates, updateDelay, activeDoc, override, files,
                   envVars>>

\* a configuration handler that empties the table and leaves the timers
SetRealtimeUpdates_OnlyClearsTable(enabled) ==
    /\ enabled # realtimeUpdates
    /\ realtimeUpdates' = enabled
    /\ dialog' = ""
    /\ lastEvent' = Event("realtimeUpdates", NoDoc, <<>>, IF enabled THEN "on" ELSE "off")
    /\ ran' = <<>>
    /\ IF ~enabled
       THEN /\ documentUpdateTimeouts' = {}
            /\ UNCHANGED liveTimers
       ELSE UNCHANGED <<liveTimers, documentUpdateTimeouts>>
    /\ UNCHANGED <<now, updateDelay, activeDoc, sidebarFile, sidebarKeys, clearTimeout,
                   override, files, envVars>>

\* onDidChangeConfiguration for elementaryWatson.realtimeUpdates
SetRealtimeUpdates(enabled) ==
    /\ enabled # realtimeUpdates
    /\ realtimeUpdates' = enabled
    /\ dialog' = ""
    /\ lastEvent' = Event("realtimeUpdates", NoDoc, <<>>, IF enabled THEN "on" ELSE "off")
    /\ ran' = <<>>
    /\ IF ~enabled
       THEN /\ liveTimers' = liveTimers \ documentUpdateTimeouts
            /\ documentUpdateTimeouts' = {}
       ELSE UNCHANGED <<liveTimers, documentUpdateTimeouts>>
    /\ UNCHANGED <<now, updateDelay, activeDoc, sidebarFile, sidebarKeys, clearTimeout,
                   override, files, envVars>>

\* onDidChangeConfiguration for elementaryWatson.updateDelay
SetUpdateDelay(delay) ==
    /\ delay # updateDelay
    /\ updateDelay' = delay
    /\ dialog' = ""
    /\ lastEvent' = Event("updateDelay", NoDoc, <<>>, "")
    /\ ran' = <<>>
    /\ UNCHANGED <<now, realtimeUpdates, documentUpdateTimeouts, liveTimers,
                   activeDoc, sidebarFile, sidebarKeys, clearTimeout, override, files, envVars>>

\* one clock unit passes; no timer is due
Tick ==
    /\ now < MaxTime
    /\ \A t \in liveTimers : t[2].setAt + t[2].delay > now
    /\ clearTimeout # NoTimer => clearTimeout.setAt + clearTimeout.delay > now
    /\ now' = now + 1
    /\ dialog' = ""
    /\ lastEvent' = Event("tick", NoDoc, <<>>, "")
    /\ ran' = <<>>
    /\ UNCHANGED <<realtimeUpdates, updateDelay, documentUpdateTimeouts,
                   liveTimers, activeDoc, sidebarFile, sidebarKeys, clearTimeout, override,
                   files, envVars>>

\* deactivate() clearing the table without clearing the timers
Deactivate_OnlyClearsTable ==
    /\ listening
    /\ listening' = FALSE
    /\ dialog' = ""
    /\ lastEvent' = Event("deactivate", NoDoc,
                          SelectSeq(<<TimeoutOf("a.js"), TimeoutOf("b.ts")>>,
                                    LAMBDA h : h # NoTimer), "")
    /\ ran' = <<>>
    /\ documentUpdateTimeouts' = {}
    /\ UNCHANGED liveTimers
    /\ UNCHANGED <<now, realtimeUpdates, updateDelay, activeDoc, sidebarFile,
                   sidebarKeys, clearTimeout, override, files, hasWorkspace,
                   settingsFile, calls, pc, currentLocale, translations, idx,
                   currentTranslation, results, published, text, scanned,
                   loopVars, extractVars>>

\* deactivate(), then the disposal of context.subscriptions: every timer
\* of the table is cleared, the table is emptied, the listeners are gone
Deactivate ==
    /\ listening
    /\ listening' = FALSE
    /\ dialog' = ""
    /\ lastEvent' = Event("deactivate", NoDoc,
                          SelectSeq(<<TimeoutOf("a.js"), TimeoutOf("b.ts")>>,
                                    LAMBDA h : h # NoTimer), "")
    /\ ran' = <<>>
    /\ liveTimers' = liveTimers \ documentUpdateTimeouts
    /\ documentUpdateTimeouts' = {}
    /\ UNCHANGED <<now, realtimeUpdates, updateDelay, activeDoc, sidebarFile,
                   sidebarKeys, clearTimeout, override, files, hasWorkspace,
                   settingsFile, calls, pc, currentLocale, translations, idx,
                   currentTranslation, results, published, text, scanned,
                   loopVars, extractVars>>

NextDebounce ==
    \/ \E d \in SourceDocs \cup {NotesDoc} : \E changes \in ChangeEvents :
          ChangeDocument(d, changes)
    \/ \E d \in SourceDocs : TimerFires(d)
    \/ \E d \in SourceDocs \cup {NotesDoc} : SaveDocument(d)
    \/ \E enabled \in BOOLEAN : SetRealtimeUpdates(enabled)
    \/ \E delay \in Delays : SetUpdateDelay(delay)
    \/ Tick

SpecDebounce == InitDebounce /\ [][NextDebounce]_vars

(***************************************************************************)
(* Debounce, save and live-update properties                               *)
(***************************************************************************)
\* a content mutation is relevant: one of its changes spans more than one
\* line, inserts a line break, deletes at least one character, or inserts
\* text containing the accessor-dot "m." or the call parentheses "()"
RelevantMutation(changes) ==
    \E i \in 1..Len(changes) :
        \/ changes[i].lines >= 1
        \/ \E j \in 1..Len(changes[i].text) : changes[i].text[j] \in {"\n", "\r"}
        \/ changes[i].rangeLength >= 1
        \/ \E j \in 1..(Len(changes[i].text) - 1) :
              \/ changes[i].text[j] = "m" /\ changes[i].text[j + 1] = "."
              \/ changes[i].text[j] = "(" /\ changes[i].text[j + 1] = ")"

\* the handler that just ran took a content change that live updates accept
AcceptedChange ==
    /\ lastEvent'.kind = "change"
    /\ realtimeUpdates
    /\ lastEvent'.doc \in SourceDocs
    /\ RelevantMutation(lastEvent'.arg)

\* every live timer is the one registered for its document, and none is
\* overdue
TimersRegistered ==
    /\ liveTimers = documentUpdateTimeouts
    /\ \A d \in Docs : Cardinality(TimersOf(d)) <= 1
    /\ \A t \in liveTimers : t[2].setAt + t[2].delay >= now

\* C15: of N relevant mutations of a document that follow one another by
\* less than the delay, with no save in between, each cancels the pending
\* timer and starts a fresh one without running a cycle; exactly one cycle
\* runs, when the timer of the last mutation expires, at (time of the last
\* mutation + delay), and no timer of the document is left after it.
C15_DebounceOneCycle ==
    /\ []TimersRegistered
    /\ [][ /\ AcceptedChange =>
                /\ ran' = <<>>
                /\ {t \in liveTimers' : t[1] = lastEvent'.doc} =
                      {<<lastEvent'.doc, [setAt |-> now, delay |-> updateDelay,
                                          n |-> TimeoutOf(lastEvent'.doc).n + 1]>>}
           /\ lastEvent'.kind = "timer" =>
                /\ lastEvent'.arg = <<TimeoutOf(lastEvent'.doc)>>
                /\ now = TimeoutOf(lastEvent'.doc).setAt + TimeoutOf(lastEvent'.doc).delay
                /\ Len(ran') = 1
                /\ ran'[1].doc = lastEvent'.doc
                /\ ran'[1].cause = "debounce"
                /\ {t \in liveTimers' : t[1] = lastEvent'.doc} = {}
                /\ {e \in documentUpdateTimeouts' : e[1] = lastEvent'.doc} = {}
         ]_vars

\* two mutations of a.js, the second one time unit after the first, and the
\* one cycle two time units after the second
C15_Witness ==
    /\ lastEvent.kind = "timer"
    /\ lastEvent.doc = "a.js"
    /\ lastEvent.arg = <<[setAt |-> 1, delay |-> 2, n |-> 2]>>
    /\ now = 3
    /\ Len(ran) = 1
    /\ ran[1].doc = "a.js"
    /\ TimersOf("a.js") = {}

\* C16: a save of a supported document cancels the document's pending
\* timer, leaves no timer entry for it, and runs one cycle at once; a timer
\* that expires is always the registered one, never a cancelled one, so a
\* save during PendingRescan gives one cycle, not two.
C16_SaveCancelsTimer ==
    /\ []TimersRegistered
    /\ [][ /\ (lastEvent'.kind = "save" /\ lastEvent'.doc \in SourceDocs) =>
                /\ {t \in liveTimers' : t[1] = lastEvent'.doc} = {}
                /\ {e \in documentUpdateTimeouts' : e[1] = lastEvent'.doc} = {}
                /\ Len(ran') = 1
                /\ ran'[1].doc = lastEvent'.doc
                /\ ran'[1].cause = "save"
                /\ now' = now
           /\ lastEvent'.kind = "timer" =>
                lastEvent'.arg = <<TimeoutOf(lastEvent'.doc)>>
         ]_vars

\* a.js was saved while its timer was pending
C16_Witness ==
    /\ lastEvent.kind = "save"
    /\ lastEvent.doc = "a.js"
    /\ Len(lastEvent.arg) = 1
    /\ lastEvent.arg[1].setAt + lastEvent.arg[1].delay > now
    /\ TimersOf("a.js") = {}
    /\ Len(ran) = 1
    /\ ran[1].cause = "save"

\* C17: a mutation is relevant when one of its changes spans more than one
\* line, inserts a line break, deletes a character or inserts text with the
\* accessor-dot or the call parentheses, and then (live updates on, document
\* supported) it starts the document's timer; a mutation that is not
\* relevant creates no timer, restarts or cancels none, and runs no cycle.
C17_IrrelevantIgnored ==
    [][ lastEvent'.kind = "change" =>
          /\ ~RelevantMutation(lastEvent'.arg) =>
                /\ liveTimers' = liveTimers
                /\ documentUpdateTimeouts' = documentUpdateTimeouts
                /\ ran' = <<>>
          /\ AcceptedChange =>
                <<lastEvent'.doc, [setAt |-> now, delay |-> updateDelay,
                                   n |-> TimeoutOf(lastEvent'.doc).n + 1]>>
                    \in liveTimers'
      ]_vars

\* an opening parenthesis typed into b.ts while its timer, set one time unit
\* earlier, is pending
C17_Witness ==
    /\ lastEvent.kind = "change"
    /\ lastEvent.doc = "b.ts"
    /\ lastEvent.arg = <<Insert(<<"(">>)>>
    /\ realtimeUpdates
    /\ TimersOf("b.ts") = {[setAt |-> now - 1, delay |-> 2, n |-> 1]}
    /\ ran = <<>>

\* C18: while live updates are disabled no content mutation creates a timer
\* or runs a cycle, no timer set earlier is left to run one, and a save
\* still runs a cycle.
C18_DisabledMeansSaveOnly ==
    /\ [](~realtimeUpdates => liveTimers = {} /\ documentUpdateTimeouts = {})
    /\ [][ ~realtimeUpdates' =>
             /\ lastEvent'.kind \in {"change", "timer", "realtimeUpdates"} =>
                   /\ ran' = <<>>
                   /\ liveTimers' = {}
             /\ (lastEvent'.kind = "save" /\ lastEvent'.doc \in SourceDocs) =>
                   /\ Len(ran') = 1
                   /\ ran'[1].doc = lastEvent'.doc
         ]_vars

\* live updates were switched off after time 0 and a relevant mutation of
\* a.js was ignored
C18_Witness ==
    /\ ~realtimeUpdates
    /\ now >= 1
    /\ lastEvent.kind = "change"
    /\ lastEvent.doc = "a.js"
    /\ RelevantMutation(lastEvent.arg)
    /\ liveTimers = {}
    /\ ran = <<>>

(***************************************************************************)
(* Editor focus, locale-data file watchers and locale selection            *)
(***************************************************************************)
\* ExtensionActivator.processActiveEditor: <<processDocument calls,
\* currentFilePath, translationData.length>> for an override and files
processActiveEditor(cause, ov, fs) ==
    IF isSupportedDocument(activeDoc)
    THEN <<<<processDocument(activeDoc, cause, ov, settingsFile, fs)>>,
           SidebarRefresh(activeDoc, FALSE, settingsFile, fs)[1],
           SidebarRefresh(activeDoc, FALSE, settingsFile, fs)[2]>>
    ELSE <<<<>>, sidebarFile, sidebarKeys>>

\* the 150 ms of the sidebar's deferred clear, rounded up to clock units
SidebarClearDelay == 2

\* the focus handler treating every document as a locale-data file: the
\* sidebar is refreshed, no cycle runs
FocusEditor_RefreshOnly(d) ==
    /\ d # activeDoc
    /\ activeDoc' = d
    /\ dialog' = ""
    /\ lastEvent' = Event("focus", d, <<>>, "")
    /\ ran' = <<>>
    /\ sidebarFile' = SidebarRefresh(d, FALSE, settingsFile, files)[1]
    /\ sidebarKeys' = SidebarRefresh(d, FALSE, settingsFile, files)[2]
    /\ clearTimeout' = NoTimer
    /\ UNCHANGED <<now, realtimeUpdates, updateDelay, documentUpdateTimeouts,
                   liveTimers, override, files, envVars>>

\* onDidChangeActiveTextEditor for an editor showing d
FocusEditor(d) ==
    /\ d # activeDoc
    /\ activeDoc' = d
    /\ dialog' = ""
    /\ lastEvent' = Event("focus", d, <<>>, "")
    /\ IF isSupportedDocument(d)
       THEN /\ ran' = <<processDocument(d, "focus", override, settingsFile, files)>>
            /\ sidebarFile' = SidebarRefresh(d, FALSE, settingsFile, files)[1]
            /\ sidebarKeys' = SidebarRefresh(d, FALSE, settingsFile, files)[2]
            /\ clearTimeout' = NoTimer
       ELSE IF isTranslationFile(d)
       THEN /\ ran' = <<>>
            /\ sidebarFile' = SidebarRefresh(d, FALSE, settingsFile, files)[1]
            /\ sidebarKeys' = SidebarRefresh(d, FALSE, settingsFile, files)[2]
            /\ clearTimeout' = NoTimer
       ELSE \* refresh(null): the pending clear is replaced by a new one
            /\ ran' = <<>>
            /\ clearTimeout' = [setAt |-> now, delay |-> SidebarClearDelay, n |-> 1]
            /\ UNCHANGED <<sidebarFile, sidebarKeys>>
    /\ UNCHANGED <<now, realtimeUpdates, updateDelay, documentUpdateTimeouts,
                   liveTimers, override, files, envVars>>

\* the setTimeout callback of SidebarTreeProvider.refresh(null)
SidebarClearFires ==
    /\ clearTimeout # NoTimer
    /\ clearTimeout.setAt + clearTimeout.delay <= now
    /\ sidebarFile' = NoDoc
    /\ sidebarKeys' = 0
    /\ clearTimeout' = NoTimer
    /\ dialog' = ""
    /\ lastEvent' = Event("sidebarClear", NoDoc, <<>>, "")
    /\ ran' = <<>>
    /\ UNCHANGED <<now, realtimeUpdates, updateDelay, documentUpdateTimeouts,
                   liveTimers, activeDoc, override, files, envVars>>

\* the locales whose file has a watcher: setupTranslationFileWatchers goes
\* through getAvailableLocales, here the list of the project settings
WatchedLocales ==
    {getAvailableLocales(settingsFile, files)[j] :
        j \in 1..Len(getAvailableLocales(settingsFile, files))}

\* a handler that tells the user when the changed file cannot be loaded
LocaleFileChanged_Warns(l, content) ==
    /\ content # files[l]
    /\ files' = [files EXCEPT ![l] = content]
    /\ dialog' = IF content.kind = "json" THEN ""
                  ELSE "Could not load translations for locale: " \o l
    /\ lastEvent' = Event("localeFile", NoDoc, <<>>, l)
    /\ IF l \notin WatchedLocales
       THEN /\ ran' = <<>>
            /\ UNCHANGED <<sidebarFile, sidebarKeys, clearTimeout>>
       ELSE IF sidebarFile # NoDoc /\ sidebarKeys > 0
       THEN \* hasPreservedContext
            /\ ran' = IF activeDoc = sidebarFile
                      THEN <<processDocument(activeDoc, "localeFile", override,
                                             settingsFile, files')>>
                      ELSE <<>>
            /\ sidebarFile' = SidebarRefresh(sidebarFile, TRUE, settingsFile, files')[1]
            /\ sidebarKeys' = SidebarRefresh(sidebarFile, TRUE, settingsFile, files')[2]
            /\ clearTimeout' = NoTimer
       ELSE IF isSupportedDocument(activeDoc)
       THEN /\ ran' = <<processDocument(activeDoc, "localeFile", override,
                                         settingsFile, files')>>
            /\ sidebarFile' = SidebarRefresh(activeDoc, FALSE, settingsFile, files')[1]
            /\ sidebarKeys' = SidebarRefresh(activeDoc, FALSE, settingsFile, files')[2]
            /\ clearTimeout' = NoTimer
       ELSE /\ ran' = <<>>
            /\ UNCHANGED <<sidebarFile, sidebarKeys, clearTimeout>>
    /\ UNCHANGED <<now, realtimeUpdates, updateDelay, documentUpdateTimeouts,
                   liveTimers, activeDoc, override, envVars>>

\* a locale-data file is changed, created or deleted on disk; when it is
\* watched, handleTranslationFileChange runs
LocaleFileChanged(l, content) ==
    /\ content # files[l]
    /\ files' = [files EXCEPT ![l] = content]
    /\ dialog' = ""
    /\ lastEvent' = Event("localeFile", NoDoc, <<>>, l)
    /\ IF l \notin WatchedLocales
       THEN /\ ran' = <<>>
            /\ UNCHANGED <<sidebarFile, sidebarKeys, clearTimeout>>
       ELSE IF sidebarFile # NoDoc /\ sidebarKeys > 0
       THEN \* hasPreservedContext
            /\ ran' = IF activeDoc = sidebarFile
                      THEN <<processDocument(activeDoc, "localeFile", override,
                                             settingsFile, files')>>
                      ELSE <<>>
            /\ sidebarFile' = SidebarRefresh(sidebarFile, TRUE, settingsFile, files')[1]
            /\ sidebarKeys' = SidebarRefresh(sidebarFile, TRUE, settingsFile, files')[2]
            /\ clearTimeout' = NoTimer
       ELSE IF isSupportedDocument(activeDoc)
       THEN /\ ran' = <<processDocument(activeDoc, "localeFile", override,
                                         settingsFile, files')>>
            /\ sidebarFile' = SidebarRefresh(activeDoc, FALSE, settingsFile, files')[1]
            /\ sidebarKeys' = SidebarRefresh(activeDoc, FALSE, settingsFile, files')[2]
            /\ clearTimeout' = NoTimer
       ELSE /\ ran' = <<>>
            /\ UNCHANGED <<sidebarFile, sidebarKeys, clearTimeout>>
    /\ UNCHANGED <<now, realtimeUpdates, updateDelay, documentUpdateTimeouts,
                   liveTimers, activeDoc, override, envVars>>

\* onDidChangeConfiguration for elementaryWatson.defaultLocale: the user
\* edits or removes the override in the settings
SetDefaultLocale(value) ==
    /\ value # override
    /\ override' = value
    /\ dialog' = ""
    /\ lastEvent' = Event("defaultLocale", NoDoc, <<>>, value)
    /\ ran' = processActiveEditor("defaultLocale", value, files)[1]
    /\ sidebarFile' = processActiveEditor("defaultLocale", value, files)[2]
    /\ sidebarKeys' = processActiveEditor("defaultLocale", value, files)[3]
    /\ clearTimeout' = IF isSupportedDocument(activeDoc) THEN NoTimer ELSE clearTimeout
    /\ UNCHANGED <<now, realtimeUpdates, updateDelay, documentUpdateTimeouts,
                   liveTimers, activeDoc, files, envVars>>

\* the command elementaryWatson.changeLocale with the text the user entered
\* ("" when the input box is dismissed): updateLocale writes the override,
\* which raises the configuration event, then the command processes the
\* active editor itself
ChangeLocaleCommand(newLocale) ==
    /\ lastEvent' = Event("changeLocale", NoDoc, <<>>, newLocale)
    /\ IF newLocale # "" /\ newLocale # getCurrentLocale(override, TRUE, settingsFile)
       THEN /\ override' = newLocale
            /\ dialog' = "Locale changed to: " \o newLocale
            /\ ran' = processActiveEditor("defaultLocale", newLocale, files)[1]
                      \o processActiveEditor("changeLocale", newLocale, files)[1]
            /\ sidebarFile' = processActiveEditor("changeLocale", newLocale, files)[2]
            /\ sidebarKeys' = processActiveEditor("changeLocale", newLocale, files)[3]
            /\ clearTimeout' = IF isSupportedDocument(activeDoc) THEN NoTimer ELSE clearTimeout
       ELSE /\ ran' = <<>>
            /\ dialog' = ""
            /\ UNCHANGED <<override, sidebarFile, sidebarKeys, clearTimeout>>
    /\ UNCHANGED <<now, realtimeUpdates, updateDelay, documentUpdateTimeouts,
                   liveTimers, activeDoc, files, envVars>>

\* live updates on, the delay at its minimum, "en" and "es" on disk
InitRefresh ==
    /\ override = Unset
    /\ files = [l \in LocaleCodes |-> CASE l = "en" -> JsonFile(D1)
                                        [] l = "es" -> JsonFile(D3)
                                        [] OTHER -> MissingFile]
    /\ realtimeUpdates = TRUE
    /\ updateDelay = 1
    /\ Activated
    /\ LoopIdle
    /\ ExtractionIdle

NextRefresh ==
    \/ \E d \in Docs : FocusEditor(d)
    \/ SidebarClearFires
    \/ ChangeDocument("a.js", <<Insert(<<"m", ".">>)>>)
    \/ TimerFires("a.js")
    \/ \E d \in SourceDocs : SaveDocument(d)
    \/ \E content \in {MissingFile, MalformedFile, JsonFile(D1), JsonFile(D3)} :
          LocaleFileChanged("es", content)
    \/ \E value \in {Unset, "es"} : SetDefaultLocale(value)
    \/ \E newLocale \in {"", "fr"} : ChangeLocaleCommand(newLocale)
    \/ Tick

SpecRefresh == InitRefresh /\ [][NextRefresh]_vars

(***************************************************************************)
(* Locale-data and locale-selection refresh properties                     *)
(***************************************************************************)
\* no timer is created, cleared or fired and no time passes in the step
NoDebounce ==
    /\ liveTimers' = liveTimers
    /\ documentUpdateTimeouts' = documentUpdateTimeouts
    /\ now' = now

\* the handler of the step ran a cycle for document d
CycleRanFor(d) == \E i \in 1..Len(ran') : ran'[i].doc = d

\* C19: on a locale-data file change notification a cycle for the currently
\* displayed supported document runs in the same step, with no debounce
\* timer involved, and every cycle of the step shows the results of the
\* locale files as they are after the change.
C19_WatcherCycleIsFresh ==
    [][(lastEvent'.kind = "localeFile" /\ lastEvent'.value \in WatchedLocales
            /\ isSupportedDocument(activeDoc))
        => /\ CycleRanFor(activeDoc)
           /\ \A i \in 1..Len(ran') :
                 ran'[i].results =
                     processDocument(ran'[i].doc, "localeFile", override,
                                     settingsFile, files').results
           /\ NoDebounce]_vars

\* the locale the selection designates: a non-empty override, else the
\* baseLocale of the project settings, else "en"
SelectedLocale(ov, sf) ==
    IF ov # Unset /\ ov # "" THEN ov
    ELSE IF sf.kind = "json" /\ sf.baseLocale # "" THEN sf.baseLocale
    ELSE "en"

\* C20: a locale-selection change (the change-locale command or an edit of
\* the override setting) runs a cycle for the active supported document in
\* the same step, with no debounce timer involved, and every cycle of the
\* step resolves against the newly selected locale.
C20_SelectionCycleUsesNewLocale ==
    [][(lastEvent'.kind \in {"defaultLocale", "changeLocale"}
            /\ override' # override /\ isSupportedDocument(activeDoc))
        => /\ CycleRanFor(activeDoc)
           /\ \A i \in 1..Len(ran') :
                 /\ ran'[i].doc = activeDoc
                 /\ ran'[i].locale = SelectedLocale(override', settingsFile)
           /\ NoDebounce]_vars

(***************************************************************************)
(* Focus changes                                                           *)
(***************************************************************************)
\* C21: when the focus moves to a document of a supported kind, exactly one
\* cycle runs in the same step, for that document, on the current override
\* and files, and no debounce timer is set, cleared or fired; when the
\* focus moves to an unsupported document no cycle runs.
C21_FocusCycle ==
    [][lastEvent'.kind = "focus"
        => IF isSupportedDocument(activeDoc')
           THEN /\ ran' = <<processDocument(activeDoc', "focus", override,
                                            settingsFile, files)>>
                /\ NoDebounce
           ELSE ran' = <<>>]_vars

\* the focus came back to a.js while its debounce timer was pending, and
\* the cycle ran at once
C21_Witness ==
    /\ lastEvent.kind = "focus"
    /\ lastEvent.doc = "a.js"
    /\ activeDoc = "a.js"
    /\ TimeoutOf("a.js") # NoTimer
    /\ Len(ran) = 1
    /\ ran[1].doc = "a.js"

(***************************************************************************)
(* Cycles on the event loop of the extension host                          *)
(*                                                                         *)
(* A handler runs as one task.  processDocument reads the document text    *)
(* in the synchronous part of its call; each await it then executes waits  *)
(* for a promise of an async function whose body only uses synchronous     *)
(* file reads, so its continuation is a promise job.  Promise jobs run     *)
(* first in first out, and the next task is dispatched when no job is      *)
(* left.                                                                   *)
(***************************************************************************)
MaxEdits == 2
MaxPending == 2
MaxCycles == 3

\* the texts a.js goes through: no call, m.a(), m.b()
TextCalls == {<<>>, <<CallSite(K_a, 1)>>, <<CallSite(K_b, 1)>>}

Ev(kind, cs, n) == [kind |-> kind, calls |-> cs, n |-> n]

\* what reaches the extension host: an edit of a.js, a save of a.js, the
\* focus coming to a.js, a batch of n locale-data file changes
UserEvents ==
    {Ev("edit", cs, 0) : cs \in TextCalls}
        \cup {Ev("save", <<>>, 0), Ev("focus", <<>>, 0)}
        \cup {Ev("localeFiles", <<>>, n) : n \in 1..2}

\* the timer task of debounceDocumentUpdate
TimerTask == Ev("timer", <<>>, 0)

\* clearTimeout: the queue of tasks without the debounce timer's
RECURSIVE WithoutTimer(_)
WithoutTimer(q) ==
    IF q = <<>> THEN <<>>
    ELSE (IF Head(q) = TimerTask THEN <<>> ELSE <<Head(q)>>) \o WithoutTimer(Tail(q))

RECURSIVE CountEdits(_)
CountEdits(q) ==
    IF q = <<>> THEN 0
    ELSE (IF Head(q).kind = "edit" THEN 1 ELSE 0) + CountEdits(Tail(q))

\* searchKeyInAllLocales: the number of locales it loads, from position i
RECURSIVE LocalesTried(_, _, _, _, _)
LocalesTried(locs, fs, key, cur, i) ==
    IF i > Len(locs) THEN 0
    ELSE IF locs[i] = cur THEN LocalesTried(locs, fs, key, cur, i + 1)
    ELSE LET trs == loadTranslations(fs[locs[i]])
         IN IF Truthy(trs) /\ Truthy(getTranslation(trs, key))
            THEN 1
            ELSE 1 + LocalesTried(locs, fs, key, cur, i + 1)

\* the awaits one call site costs in processTranslationCallsWithWarnings:
\* none when the current locale has the key, else the await of
\* searchKeyInAllLocales and two (loadTranslationsForLocale and the
\* repository call inside it) per locale loaded
RECURSIVE AwaitsOfCalls(_, _, _, _, _, _)
AwaitsOfCalls(cs, trs, sf, fs, cur, i) ==
    IF i > Len(cs) THEN 0
    ELSE (IF Truthy(getTranslation(trs, cs[i].methodName)) THEN 0
          ELSE 1 + 2 * LocalesTried(availableLocales(sf), fs,
                                    cs[i].methodName, cur, 1))
         + AwaitsOfCalls(cs, trs, sf, fs, cur, i + 1)

\* the awaits processDocument executes for a text with call sites cs: two
\* for loadTranslationsForLocale, one for
\* processTranslationCallsWithWarnings, and those of its loop
AwaitsOfCycle(cs, ov, sf, fs) ==
    LET cur == getCurrentLocale(ov, TRUE, sf)
        trs == PassedTranslations(loadTranslations(fs[cur]))
    IN 3 + AwaitsOfCalls(cs, trs, sf, fs, cur, 1)

\* translationResults of a cycle over call sites cs
CycleResults(cs, ov, sf, fs) ==
    LET cur == getCurrentLocale(ov, TRUE, sf)
        trs == PassedTranslations(loadTranslations(fs[cur]))
    IN [i \in 1..Len(cs) |-> ResolveOne(cs[i], trs, sf, fs, cur)]

\* a call of processDocument up to its first await, the queue of promise
\* jobs being q before the call: the text is read; with no call site the
\* empty results are published at once
StartCycle(q) ==
    /\ started < MaxCycles
    /\ started' = started + 1
    /\ lastRead' = docText.version
    /\ IF docText.calls = <<>>
       THEN /\ shown' = [start |-> started + 1, version |-> docText.version,
                         results |-> <<>>]
            /\ jobQueue' = q
       ELSE /\ jobQueue' = Append(q,
                   [kind |-> "cycle", start |-> started + 1,
                    version |-> docText.version, calls |-> docText.calls,
                    left |-> AwaitsOfCycle(docText.calls, override,
                                           settingsFile, files)])
            /\ UNCHANGED shown

\* the activator's variables and the files are not part of this view
loopFrame == <<passVars, scanVars, syncVars, extractVars>>

\* an event reaches the extension host and waits for its turn
EventArrives(e) ==
    /\ Len(WithoutTimer(hostEvents)) < MaxPending
    /\ e.kind = "edit" => docText.version + CountEdits(hostEvents) < MaxEdits
    /\ hostEvents' = Append(hostEvents, e)
    /\ UNCHANGED <<docText, jobQueue, started, lastRead, shown, loopFrame>>

\* a task starts although promise jobs are left
TaskReady_Eager(kind) ==
    /\ hostEvents # <<>>
    /\ Head(hostEvents).kind = kind

\* the event loop takes the next task when no promise job is left
TaskReady(kind) ==
    /\ jobQueue = <<>>
    /\ hostEvents # <<>>
    /\ Head(hostEvents).kind = kind

\* the document model takes the edit, then onDidChangeTextDocument
\* replaces the document's debounce timer
DispatchEdit ==
    /\ TaskReady("edit")
    /\ docText' = [version |-> docText.version + 1, calls |-> Head(hostEvents).calls]
    /\ hostEvents' = Append(WithoutTimer(Tail(hostEvents)), TimerTask)
    /\ UNCHANGED <<jobQueue, started, lastRead, shown, loopFrame>>

\* onDidSaveTextDocument: the timer is cleared, processDocument is called
DispatchSave ==
    /\ TaskReady("save")
    /\ hostEvents' = WithoutTimer(Tail(hostEvents))
    /\ StartCycle(jobQueue)
    /\ UNCHANGED <<docText, loopFrame>>

\* onDidChangeActiveTextEditor
DispatchFocus ==
    /\ TaskReady("focus")
    /\ hostEvents' = Tail(hostEvents)
    /\ StartCycle(jobQueue)
    /\ UNCHANGED <<docText, loopFrame>>

\* the callback of the debounce timer
DispatchTimer ==
    /\ TaskReady("timer")
    /\ hostEvents' = Tail(hostEvents)
    /\ StartCycle(jobQueue)
    /\ UNCHANGED <<docText, loopFrame>>

\* the watchers of the changed files each call
\* handleTranslationFileChange, which runs up to its await of
\* openTextDocument
DispatchLocaleFiles ==
    /\ TaskReady("localeFiles")
    /\ hostEvents' = Tail(hostEvents)
    /\ jobQueue' = jobQueue \o [i \in 1..Head(hostEvents).n |->
                      [kind |-> "watcher", start |-> 0, version |-> 0,
                       calls |-> <<>>, left |-> 0]]
    /\ UNCHANGED <<docText, started, lastRead, shown, loopFrame>>

\* handleTranslationFileChange resumes and calls processDocument for the
\* active editor, which shows the sidebar's file
RunWatcherJob ==
    /\ jobQueue # <<>>
    /\ Head(jobQueue).kind = "watcher"
    /\ StartCycle(Tail(jobQueue))
    /\ UNCHANGED <<docText, hostEvents, loopFrame>>

\* processDocument resumes after an await; after the last one it applies
\* the decorations and updates the CodeLens results
RunCycleJob ==
    /\ jobQueue # <<>>
    /\ Head(jobQueue).kind = "cycle"
    /\ LET job == Head(jobQueue)
       IN IF job.left > 1
          THEN /\ jobQueue' = Append(Tail(jobQueue), [job EXCEPT !.left = job.left - 1])
               /\ UNCHANGED shown
          ELSE /\ jobQueue' = Tail(jobQueue)
               /\ shown' = [start |-> job.start, version |-> job.version,
                            results |-> CycleResults(job.calls, override,
                                                     settingsFile, files)]
    /\ UNCHANGED <<docText, hostEvents, started, lastRead, loopFrame>>

\* a.js open with m.a() and processed once
InitCycles ==
    /\ override = Unset
    /\ files = [l \in LocaleCodes |-> CASE l = "en" -> JsonFile(D1)
                                        [] l = "es" -> JsonFile(D3)
                                        [] OTHER -> MissingFile]
    /\ realtimeUpdates = TRUE
    /\ updateDelay = 1
    /\ Activated
    /\ docText = [version |-> 0, calls |-> DocCalls["a.js"]]
    /\ hostEvents = <<>>
    /\ jobQueue = <<>>
    /\ started = 1
    /\ lastRead = 0
    /\ shown = [start |-> 1, version |-> 0,
                results |-> CycleResults(DocCalls["a.js"], override,
                                         settingsFile, files)]
    /\ ExtractionIdle

NextCycles ==
    \/ \E e \in UserEvents : EventArrives(e)
    \/ DispatchEdit
    \/ DispatchSave
    \/ DispatchFocus
    \/ DispatchTimer
    \/ DispatchLocaleFiles
    \/ RunWatcherJob
    \/ RunCycleJob

SpecCycles == InitCycles /\ [][NextCycles]_vars

\* C22: a cycle never publishes after a cycle that started later, and the
\* results a cycle publishes are computed from the text version that the
\* latest getText of any cycle returned, also when events for the document
\* arrive while the cycle is in flight.
C22_PublishInStartOrder ==
    [][shown' # shown
        => /\ shown'.start > shown.start
           /\ shown'.version = lastRead']_vars

\* an edit and a save have arrived while a cycle was in flight, and a
\* later cycle has already published the text of an earlier edit
C22_Witness ==
    /\ \E i \in 1..Len(jobQueue) : jobQueue[i].kind = "cycle"
    /\ \E i \in 1..Len(hostEvents) : hostEvents[i].kind = "edit"
    /\ shown.version >= 1
    /\ shown.start >= 2

(***************************************************************************)
(* Deactivation                                                            *)
(***************************************************************************)
\* the debounce life cycle until the extension is deactivated; afterwards
\* only time passes and timers that are still live fire
NextShutdown ==
    \/ /\ listening
       /\ \E d \in SourceDocs : \E changes \in {<<Insert(<<"m", ".">>)>>, <<Insert(<<"x">>)>>} :
             ChangeDocument(d, changes)
    \/ \E d \in SourceDocs : TimerFires(d)
    \/ /\ listening
       /\ \E d \in SourceDocs : SaveDocument(d)
    \/ /\ listening
       /\ \E delay \in Delays : SetUpdateDelay(delay)
    \/ Deactivate
    \/ Tick

SpecShutdown == InitDebounce /\ [][NextShutdown]_vars

\* C23: deactivation cancels the pending debounce timer of every document
\* and leaves the timer table empty, and from then on no timer is live and
\* no step runs a cycle.
C23_DeactivateCancelsAll ==
    /\ [](~listening => (documentUpdateTimeouts = {} /\ liveTimers = {}))
    /\ [][~listening' => ran' = <<>>]_vars

\* deactivated while a.js and b.ts each had a timer pending: both were
\* cancelled
C23_Witness ==
    /\ ~listening
    /\ lastEvent.kind = "deactivate"
    /\ Len(lastEvent.arg) = 2
    /\ liveTimers = {}
    /\ documentUpdateTimeouts = {}

(***************************************************************************)
(* ExtractionService                                                       *)
(***************************************************************************)
\* ExtractionService.stripMatchingQuotes
stripMatchingQuotes(t) ==
    IF Len(t) < 2 THEN t
    ELSE IF t[1] \in QuoteChars /\ t[Len(t)] = t[1]
    THEN SubSeq(t, 2, Len(t) - 1)
    ELSE t

\* obj[k] = v on a plain object: an own property keeps its place, a new
\* one is added in property order (array-index names first, ascending,
\* then the other names in order of creation)
SetProperty(obj, k, v) ==
    IF HasOwn(obj, k)
    THEN Obj([i \in 1..Len(obj.kv) |->
                 IF obj.kv[i][1] = k THEN <<k, v>> ELSE obj.kv[i]])
    ELSE LET kv == Append(obj.kv, <<k, v>>)
             isIdx(i) == IsArrayIndex(kv[i][1])
             idxPos == {i \in 1..Len(kv) : isIdx(i)}
             rank(i) == IF isIdx(i)
                        THEN Cardinality({j \in idxPos :
                                 IndexOf(kv[j][1]) < IndexOf(kv[i][1])}) + 1
                        ELSE Cardinality(idxPos)
                             + Cardinality({j \in 1..i : ~isIdx(j)})
         IN Obj([r \in 1..Len(kv) |-> kv[CHOOSE i \in 1..Len(kv) : rank(i) = r]])

\* the loop of setNestedValue from segment i on, current being a plain
\* object: the object current becomes, or Threw for a TypeError
RECURSIVE SetPath(_, _, _, _)
SetPath(current, keys, i, value) ==
    IF i = Len(keys) THEN SetProperty(current, keys[i], value)
    ELSE LET child == Get(current, keys[i])
             next == IF child.t \in {"obj", "null"} THEN child ELSE Obj(<<>>)
         IN IF next.t = "null" THEN Threw
            ELSE LET inner == SetPath(next, keys, i + 1, value)
                 IN IF inner = Threw THEN Threw
                    ELSE SetProperty(current, keys[i], inner)

\* ExtractionService.setNestedValue, as the object obj becomes
setNestedValue(obj, path, value) ==
    IF ~IncludesDot(path) THEN SetProperty(obj, path, value)
    ELSE SetPath(obj, Split(path), 1, value)

\* ExtractionService.updateLocaleFile: the file afterwards, or Threw when
\* the parse, the setter or the write throws
updateLocaleFile(file, key, value, diskOk) ==
    LET trs == IF file.kind = "missing" THEN Obj(<<>>) ELSE JSONparse(file)
    IN IF trs = Threw THEN Threw
       ELSE LET updated == setNestedValue(trs, key, Str(value))
            IN IF updated = Threw \/ ~diskOk THEN Threw ELSE JsonFile(updated)

\* ExtractionService.searchInTranslations: the key found, <<>> for null
RECURSIVE searchInTranslations(_, _, _)
RECURSIVE SearchEntries(_, _, _, _)
SearchEntries(obj, txt, prefix, i) ==
    IF i > Len(obj.kv) THEN <<>>
    ELSE LET key == obj.kv[i][1]
             value == obj.kv[i][2]
             currentKey == IF prefix # <<>> THEN prefix \o <<".">> \o key ELSE key
         IN IF value.t = "str" /\ value.s = txt THEN currentKey
            ELSE IF value.t = "obj"
                    /\ searchInTranslations(value, txt, currentKey) # <<>>
            THEN searchInTranslations(value, txt, currentKey)
            ELSE SearchEntries(obj, txt, prefix, i + 1)

searchInTranslations(obj, txt, prefix) == SearchEntries(obj, txt, prefix, 1)

\* `inlangSettings?.baseLocale || 'en'`
baseLocaleOf(sf) ==
    IF loadInlangSettings(sf) # NullSettings /\ loadInlangSettings(sf).baseLocale # ""
    THEN loadInlangSettings(sf).baseLocale ELSE "en"

\* a search that looks at the top-level entries only
findExistingTranslation_TopLevel(sf, fs, txt) ==
    LET baseTranslations == loadTranslations(fs[baseLocaleOf(sf)])
        hits == IF Truthy(baseTranslations)
                THEN {i \in 1..Len(baseTranslations.kv) :
                         baseTranslations.kv[i][2] = Str(txt)}
                ELSE {}
    IN IF hits = {} THEN <<>>
       ELSE baseTranslations.kv[CHOOSE i \in hits : \A j \in hits : i <= j][1]

\* ExtractionService.findExistingTranslation: the key, <<>> for null
findExistingTranslation(sf, fs, txt) ==
    LET baseTranslations == loadTranslations(fs[baseLocaleOf(sf)])
    IN IF Truthy(baseTranslations) THEN searchInTranslations(baseTranslations, txt, <<>>)
       ELSE <<>>

\* a formatter that knows the dot form only
formatKeyCall_DotOnly(key, itype) ==
    LET keyCall == <<"m", ".">> \o key \o <<"(", ")">>
    IN IF itype = "template" THEN <<"{">> \o keyCall \o <<"}">>
       ELSE keyCall

\* ExtractionService.formatKeyCall
formatKeyCall(key, itype) ==
    LET keyCall == IF IncludesDot(key)
                   THEN <<"m", "[", "\"">> \o key \o <<"\"", "]", "(", ")">>
                   ELSE <<"m", ".">> \o key \o <<"(", ")">>
    IN IF itype = "template" THEN <<"{">> \o keyCall \o <<"}">>
       ELSE keyCall

\* what an extraction leaves alone
extractFrame == <<override, hasWorkspace, settingsFile, calls, pc, currentLocale,
                  translations, idx, results, published, scanVars,
                  realtimeUpdates, updateDelay, documentUpdateTimeouts,
                  liveTimers, activeDoc, sidebarFile, sidebarKeys, clearTimeout,
                  listening, lastEvent, ran, loopVars, editorLanguage,
                  pathPattern>>

\* a.js open in the editor of an activated extension, no cycle under way
EditorOpen ==
    /\ override = Unset
    /\ calls = <<>>
    /\ pc = "start"
    /\ currentLocale = ""
    /\ translations = Undefined
    /\ idx = 0
    /\ currentTranslation = Undefined
    /\ results = <<>>
    /\ published = <<>>
    /\ text = <<>>
    /\ scanned = <<>>
    /\ now = 0
    /\ realtimeUpdates = TRUE
    /\ updateDelay = 3
    /\ documentUpdateTimeouts = {}
    /\ liveTimers = {}
    /\ activeDoc = "a.js"
    /\ sidebarFile = "a.js"
    /\ sidebarKeys = getTranslationDataLength("a.js", settingsFile, files)
    /\ clearTimeout = NoTimer
    /\ listening = TRUE
    /\ lastEvent = NoEvent
    /\ dialog = ""
    /\ ran = <<>>
    /\ LoopIdle

(***************************************************************************)
(* Nested keys: setNestedValue, then getTranslation                        *)
(***************************************************************************)
\* {"a": null}
DNull == Obj(<< <<K_a, JNull>> >>)
K_ba == <<"b", ".", "a">>

RoundTripDocs == {Obj(<<>>), D1, D2, D3, DNull}
RoundTripKeys == {K_a, K_ab, K_ba, K_a0, K_cn}
RoundTripValues == {<<"E">>, <<>>}

InitRoundTrip ==
    /\ hasWorkspace = TRUE
    /\ settingsFile = MissingSettings
    /\ \E doc \in RoundTripDocs :
          files = [l \in LocaleCodes |-> IF l = "en" THEN JsonFile(doc) ELSE MissingFile]
    /\ EditorOpen
    /\ xpc = "write"
    /\ selection = <<>>
    /\ selectedText \in RoundTripValues
    /\ xKey \in RoundTripKeys
    /\ attempts = 0
    /\ interpolationType = ""
    /\ otherIdx = 0
    /\ written = <<>>
    /\ failedAt = ""
    /\ outcome = "none"
    /\ replaced = <<>>
    /\ editorLanguage = "javascript"
    /\ pathPattern = ""

\* updateLocaleFile(workspacePath, "en", key, value) on a disk that takes
\* the write
WriteNestedKey ==
    /\ xpc = "write"
    /\ xpc' = "written"
    /\ LET after == updateLocaleFile(files["en"], xKey, selectedText, TRUE)
       IN IF after = Threw
          THEN /\ failedAt' = "en"
               /\ UNCHANGED <<files, written>>
          ELSE /\ files' = [files EXCEPT !["en"] = after]
               /\ written' = <<[locale |-> "en", at |-> now]>>
               /\ UNCHANGED failedAt
    /\ UNCHANGED <<selection, selectedText, xKey, attempts, interpolationType,
                   otherIdx, outcome, replaced, currentTranslation, now,
                   extractFrame, dialog>>

\* getTranslation(translations, key) on the document loaded from the file
ReadKeyBack ==
    /\ xpc = "written"
    /\ xpc' = "read"
    /\ currentTranslation' = getTranslation(loadTranslations(files["en"]), xKey)
    /\ UNCHANGED <<files, selection, selectedText, xKey, attempts,
                   interpolationType, otherIdx, written, failedAt, outcome,
                   replaced, now, extractFrame, dialog>>

NextRoundTrip == WriteNestedKey \/ ReadKeyBack

SpecRoundTrip == InitRoundTrip /\ [][NextRoundTrip]_vars

\* C29: for a dot-separated key and a string value, the nested setter
\* writes the key into the document, whatever the intermediate segments
\* held before, and get then reads exactly the written value back.
C29_NestedRoundTrip ==
    /\ (xpc \in {"written", "read"} /\ IncludesDot(xKey)) => failedAt = ""
    /\ (xpc = "read" /\ IncludesDot(xKey)) => currentTranslation = Str(selectedText)


(***************************************************************************)
(* Extract selected text: ExtractionService.extractSelectedText            *)
(***************************************************************************)
\* the 2000 ms that addToLocaleFiles waits after the base locale, in clock
\* units
SettleDelay == 20

\* the iteration limit of the loop of generateUniqueKey
MaxKeyAttempts == 10

\* the digits of Date.now() at the moment the fallback key is built
TimestampDigits == <<"1", "7">>

K_1 == <<"1">>
K_n == <<"n">>

\* {"b": "x", "1": "hi"}, as written in the file
DOrd == Obj(<< <<K_b, Str(<<"x">>)>>, <<K_1, Str(<<"h", "i">>)>> >>)

\* {"a": {"b": "yo"}, "b": "yo"}
DTwice == Obj(<< <<K_a, Obj(<< <<K_b, Str(<<"y", "o">>)>> >>)>>,
                 <<K_b, Str(<<"y", "o">>)>> >>)

\* the identifiers humanId may return
HumanIds == {K_a, K_b, K_n}

\* the text under the selection; <<>> is the empty selection
Selections == {<<>>, <<" ">>, <<"h", "i">>, <<" ", "\"", "h", "i", "\"">>,
               <<"y", "o">>, <<"N">>, <<"'", "'">>}

ExtractSettings == {MissingSettings,
                    SettingsJson("en", TRUE, <<"en", "es", "fr">>),
                    SettingsJson("es", TRUE, <<"en", "es">>),
                    SettingsJson("fr", TRUE, <<"en", "es">>),
                    SettingsJson("es", FALSE, <<>>)}

InitExtract ==
    /\ hasWorkspace \in BOOLEAN
    /\ settingsFile \in ExtractSettings
    /\ \E en \in {MissingFile, MalformedFile, JsonFile(D1), JsonFile(DOrd)},
          es \in {MissingFile, JsonFile(D1), JsonFile(D2), JsonFile(DTwice)},
          fr \in {MissingFile, JsonFile(D1)} :
          files = [l \in LocaleCodes |->
                      IF l = "en" THEN en ELSE IF l = "es" THEN es ELSE fr]
    /\ ~hasWorkspace => /\ settingsFile = MissingSettings
                        /\ \A l \in LocaleCodes : files[l] = MissingFile
    /\ EditorOpen
    /\ selection \in Selections
    /\ xpc = "idle"
    /\ selectedText = <<>>
    /\ xKey = <<>>
    /\ attempts = 0
    /\ interpolationType = ""
    /\ otherIdx = 0
    /\ written = <<>>
    /\ failedAt = ""
    /\ outcome = "none"
    /\ replaced = <<>>
    /\ editorLanguage \in {"javascript", "svelte"}
    /\ pathPattern = ""

\* what the command elementaryWatson.extractText shows after a success
ExtractedMessage == "Text extracted successfully to locale files"

\* extractSelectedText returns false, after showing message as an error
\* message unless it is ""
ExtractionFails(message) ==
    /\ xpc' = "done"
    /\ outcome' = "false"
    /\ dialog' = message

\* extractSelectedText up to the await of generateUniqueKey or of the
\* interpolation choice for an existing key
ExtractSelectedText ==
    /\ xpc = "idle"
    /\ LET rawSelectedText == Trim(selection)
           cleaned == stripMatchingQuotes(rawSelectedText)
           existingKey == findExistingTranslation(settingsFile, files, cleaned)
       IN IF selection = <<>> \/ rawSelectedText = <<>>
          THEN /\ ExtractionFails(IF selection = <<>>
                                  THEN "Please select text to extract"
                                  ELSE "Selected text is empty")
               /\ UNCHANGED <<selectedText, xKey>>
          ELSE IF ~hasWorkspace
          THEN /\ ExtractionFails("No workspace folder found")
               /\ selectedText' = cleaned
               /\ UNCHANGED xKey
          ELSE IF existingKey # <<>>
          THEN /\ xpc' = "chooseReuse"
               /\ selectedText' = cleaned
               /\ xKey' = existingKey
               /\ UNCHANGED <<outcome, dialog>>
          ELSE /\ xpc' = "generate"
               /\ selectedText' = cleaned
               /\ UNCHANGED <<xKey, outcome, dialog>>
    /\ UNCHANGED <<files, selection, attempts, interpolationType, otherIdx, written,
                   failedAt, replaced, currentTranslation, now, extractFrame>>

\* the test of generateUniqueKey on a drawn key: `!baseTranslations[key]`
KeyIsFree(fs, sf, key) ==
    LET loaded == loadTranslations(fs[baseLocaleOf(sf)])
        baseTranslations == IF Truthy(loaded) THEN loaded ELSE Obj(<<>>)
    IN ~Truthy(Get(baseTranslations, key))

\* one draw of humanId in generateUniqueKey: an iteration of the loop, or
\* the draw after the loop that gets the timestamp
DrawKey(key) ==
    /\ xpc = "generate"
    /\ IF attempts < MaxKeyAttempts
       THEN IF KeyIsFree(files, settingsFile, key)
            THEN /\ xKey' = key
                 /\ xpc' = "choose"
                 /\ UNCHANGED attempts
            ELSE /\ attempts' = attempts + 1
                 /\ UNCHANGED <<xKey, xpc>>
       ELSE /\ xKey' = key \o <<"_">> \o TimestampDigits
            /\ xpc' = "choose"
            /\ UNCHANGED attempts
    /\ UNCHANGED <<files, selection, selectedText, interpolationType, otherIdx,
                   written, failedAt, outcome, replaced, currentTranslation, now,
                   extractFrame, dialog>>

\* the values of the two options of the quick pick, in the order shown
InterpolationOptions(lang) ==
    IF lang = "svelte" THEN <<"template", "code">> ELSE <<"code", "template">>

\* getUserInterpolationChoice resolves with the option picked; pick 0 is a
\* dismissed quick pick, which gives "".  For an existing key
\* replaceTextWithKey replaces the selection right away
ChooseInterpolation(pick) ==
    LET choice == IF pick = 0 THEN ""
                  ELSE InterpolationOptions(editorLanguage)[pick]
    IN /\ xpc \in {"choose", "chooseReuse"}
       /\ interpolationType' = choice
       /\ IF choice = ""
          THEN /\ ExtractionFails("")
               /\ UNCHANGED replaced
          ELSE IF xpc = "chooseReuse"
          THEN /\ replaced' = formatKeyCall(xKey, choice)
               /\ xpc' = "done"
               /\ outcome' = "true"
               /\ dialog' = ExtractedMessage
          ELSE /\ xpc' = "writeBase"
               /\ UNCHANGED <<replaced, outcome, dialog>>
       /\ UNCHANGED <<files, selection, selectedText, xKey, attempts, otherIdx,
                      written, failedAt, currentTranslation, now, extractFrame>>

\* updateLocaleFile throws inside addToLocaleFiles: its catch returns false
\* and extractSelectedText returns false
WriteFails(locale) ==
    /\ failedAt' = locale
    /\ ExtractionFails("Failed to update locale files")
    /\ UNCHANGED <<files, written>>

\* a base write that stores the selection as selected, quotes included
WriteBase_RawText(diskOk) ==
    /\ xpc = "writeBase"
    /\ LET baseLocale == baseLocaleOf(settingsFile)
           after == updateLocaleFile(files[baseLocale], xKey, Trim(selection), diskOk)
       IN IF after = Threw
          THEN WriteFails(baseLocale)
          ELSE /\ files' = [files EXCEPT ![baseLocale] = after]
               /\ written' = <<[locale |-> baseLocale, at |-> now]>>
               /\ xpc' = "settle"
               /\ UNCHANGED <<failedAt, outcome, dialog>>
    /\ UNCHANGED <<selection, selectedText, xKey, attempts, interpolationType,
                   otherIdx, replaced, currentTranslation, now, extractFrame>>

\* addToLocaleFiles up to the settle timer: the base locale's file
WriteBase(diskOk) ==
    /\ xpc = "writeBase"
    /\ LET baseLocale == baseLocaleOf(settingsFile)
           after == updateLocaleFile(files[baseLocale], xKey, selectedText, diskOk)
       IN IF after = Threw
          THEN WriteFails(baseLocale)
          ELSE /\ files' = [files EXCEPT ![baseLocale] = after]
               /\ written' = <<[locale |-> baseLocale, at |-> now]>>
               /\ xpc' = "settle"
               /\ UNCHANGED <<failedAt, outcome, dialog>>
    /\ UNCHANGED <<selection, selectedText, xKey, attempts, interpolationType,
                   otherIdx, replaced, currentTranslation, now, extractFrame>>

\* a settle timer that fires at once
SettleTimerFires_NoWait ==
    /\ xpc = "settle"
    /\ xpc' = "writeOthers"
    /\ otherIdx' = 1
    /\ UNCHANGED <<files, selection, selectedText, xKey, attempts, interpolationType,
                   written, failedAt, outcome, replaced, currentTranslation, now,
                   extractFrame, dialog>>

\* `await new Promise(resolve => setTimeout(resolve, 2000))` resolves
SettleTimerFires ==
    /\ xpc = "settle"
    /\ xpc' = "writeOthers"
    /\ now' = now + SettleDelay
    /\ otherIdx' = 1
    /\ UNCHANGED <<files, selection, selectedText, xKey, attempts, interpolationType,
                   written, failedAt, outcome, replaced, currentTranslation,
                   extractFrame, dialog>>

\* an iteration of the loop that goes on after a failed write
WriteOther_KeepsGoing(diskOk) ==
    /\ xpc = "writeOthers"
    /\ otherIdx <= Len(availableLocales(settingsFile))
    /\ LET locale == availableLocales(settingsFile)[otherIdx]
           after == updateLocaleFile(files[locale], xKey, <<>>, diskOk)
       IN /\ otherIdx' = otherIdx + 1
          /\ IF locale = baseLocaleOf(settingsFile)
             THEN UNCHANGED <<files, written, failedAt, xpc, outcome, dialog>>
             ELSE IF after = Threw
             THEN /\ failedAt' = locale
                  /\ UNCHANGED <<files, written, xpc, outcome, dialog>>
             ELSE /\ files' = [files EXCEPT ![locale] = after]
                  /\ written' = Append(written, [locale |-> locale, at |-> now])
                  /\ UNCHANGED <<failedAt, xpc, outcome, dialog>>
    /\ UNCHANGED <<selection, selectedText, xKey, attempts, interpolationType,
                   replaced, currentTranslation, now, extractFrame>>

\* one iteration of `for (const locale of availableLocales)`
WriteOther(diskOk) ==
    /\ xpc = "writeOthers"
    /\ otherIdx <= Len(availableLocales(settingsFile))
    /\ LET locale == availableLocales(settingsFile)[otherIdx]
           after == updateLocaleFile(files[locale], xKey, <<>>, diskOk)
       IN IF locale = baseLocaleOf(settingsFile)
          THEN /\ otherIdx' = otherIdx + 1
               /\ UNCHANGED <<files, written, failedAt, xpc, outcome, dialog>>
          ELSE IF after = Threw
          THEN /\ WriteFails(locale)
               /\ UNCHANGED otherIdx
          ELSE /\ files' = [files EXCEPT ![locale] = after]
               /\ written' = Append(written, [locale |-> locale, at |-> now])
               /\ otherIdx' = otherIdx + 1
               /\ UNCHANGED <<failedAt, xpc, outcome, dialog>>
    /\ UNCHANGED <<selection, selectedText, xKey, attempts, interpolationType,
                   replaced, currentTranslation, now, extractFrame>>

\* addToLocaleFiles returned true: formatKeyCall and replaceSelectedText
ReplaceSelection ==
    /\ xpc = "writeOthers"
    /\ otherIdx > Len(availableLocales(settingsFile))
    /\ replaced' = formatKeyCall(xKey, interpolationType)
    /\ xpc' = "done"
    /\ outcome' = "true"
    /\ dialog' = ExtractedMessage
    /\ UNCHANGED <<files, selection, selectedText, xKey, attempts, interpolationType,
                   otherIdx, written, failedAt, currentTranslation, now,
                   extractFrame>>

NextExtract ==
    \/ ExtractSelectedText
    \/ \E key \in HumanIds : DrawKey(key)
    \/ \E pick \in 0..2 : ChooseInterpolation(pick)
    \/ \E diskOk \in BOOLEAN : WriteBase(diskOk)
    \/ SettleTimerFires
    \/ \E diskOk \in BOOLEAN : WriteOther(diskOk)
    \/ ReplaceSelection

SpecExtract == InitExtract /\ [][NextExtract]_vars


(***************************************************************************)
(* The order of the file writes of an extraction                           *)
(***************************************************************************)
\* the configured locales without the base locale, in configured order
OtherLocales(sf) ==
    SelectSeq(availableLocales(sf), LAMBDA l : l # baseLocaleOf(sf))

IsPrefix(p, q) == Len(p) <= Len(q) /\ \A i \in 1..Len(p) : p[i] = q[i]

\* the file of the locale holds the key at its top level
KeyIn(fs, locale, key) == fs[locale].kind = "json" /\ HasOwn(fs[locale].doc, key)

\* the locales this extraction has written, in the order of the writes
WrittenLocales == [i \in 1..Len(written) |-> written[i].locale]

\* C24: while a new key is extracted, the first file written is the base
\* locale's; every other locale's file is written at least the settle delay
\* after it, and the other locales written so far are a prefix of the
\* configured locales in configured order; every file written so far holds
\* the key, so the key is never in another locale written by the extraction
\* without being in the base locale
C24_BaseThenOthersInOrder ==
    written # <<>> =>
        /\ written[1].locale = baseLocaleOf(settingsFile)
        /\ IsPrefix(Tail(WrittenLocales), OtherLocales(settingsFile))
        /\ \A i \in 2..Len(written) : written[i].at >= written[1].at + SettleDelay
        /\ \A i \in 1..Len(written) : KeyIn(files, written[i].locale, xKey)

\* mid-extraction: en and es are written, fr is configured and still lacks
\* the key
C24_Witness ==
    /\ xpc = "writeOthers"
    /\ WrittenLocales = <<"en", "es">>
    /\ availableLocales(settingsFile) = <<"en", "es", "fr">>
    /\ ~KeyIn(files, "fr", xKey)


(***************************************************************************)
(* What a successful extraction leaves in the locale files                 *)
(***************************************************************************)
\* the base locale and the configured locales
TargetLocales(sf) ==
    {baseLocaleOf(sf)} \cup {availableLocales(sf)[i] : i \in 1..Len(availableLocales(sf))}

\* C25: after a successful extraction of a new key the file of the base
\* locale maps the key to the cleaned selected text, and the file of every
\* other configured locale maps it to the empty string
C25_EveryLocaleHasKey ==
    (xpc = "done" /\ outcome = "true" /\ written # <<>>)
        => \A l \in TargetLocales(settingsFile) :
              /\ KeyIn(files, l, xKey)
              /\ Get(JSONparse(files[l]), xKey)
                    = IF l = baseLocaleOf(settingsFile)
                      THEN Str(selectedText) ELSE Str(<<>>)

\* "hi" selected in quotes, en missing, es and fr present: all three files
\* hold the new key and the replacement is in the editor
C25_Witness ==
    /\ xpc = "done"
    /\ outcome = "true"
    /\ Len(written) = 3
    /\ selection = <<" ", "\"", "h", "i", "\"">>
    /\ Get(JSONparse(files["en"]), xKey) = Str(<<"h", "i">>)
    /\ Get(JSONparse(files["es"]), xKey) = Str(<<>>)
    /\ Len(files["fr"].doc.kv) = 3


(***************************************************************************)
(* Key order of a locale file across an extraction                         *)
(***************************************************************************)
\* the top-level keys of a file, in the order they stand in its text; a
\* missing file has none
FileKeys(file) ==
    IF file.kind = "json" THEN [i \in 1..Len(file.doc.kv) |-> file.doc.kv[i][1]]
    ELSE <<>>

\* C26: a write of the extraction that adds a key the file did not have
\* leaves the existing top-level keys in their order and puts the new key
\* last
C26_KeyOrderPreserved ==
    [][\A l \in LocaleCodes :
          (files'[l] # files[l] /\ files[l].kind # "malformed"
              /\ ~KeyIn(files, l, xKey))
            => FileKeys(files'[l]) = Append(FileKeys(files[l]), xKey)]_vars


(***************************************************************************)
(* Reuse of an existing key                                                *)
(***************************************************************************)
\* the entries of a document that are not plain objects, with their
\* dot-joined keys, in depth-first order
RECURSIVE Leaves(_, _, _)
Leaves(obj, prefix, i) ==
    IF i > Len(obj.kv) THEN <<>>
    ELSE LET key == obj.kv[i][1]
             value == obj.kv[i][2]
             full == IF prefix = <<>> THEN key ELSE prefix \o <<".">> \o key
         IN (IF value.t = "obj" THEN Leaves(value, full, 1)
             ELSE << [key |-> full, value |-> value] >>)
            \o Leaves(obj, prefix, i + 1)

\* the key of the first entry of the base locale's document whose value is
\* the string txt; <<>> when there is none
ReusableKey(fs, sf, txt) ==
    LET doc == loadTranslations(fs[baseLocaleOf(sf)])
        ls == IF doc.t = "obj" THEN Leaves(doc, <<>>, 1) ELSE <<>>
        hits == {i \in 1..Len(ls) : ls[i].value = Str(txt)}
    IN IF hits = {} THEN <<>>
       ELSE ls[CHOOSE i \in hits : \A j \in hits : i <= j].key

\* C27: when the base locale's document has an entry, at any depth, whose
\* string value is the cleaned selection, the extraction takes the dot-joined
\* key of the first such entry in depth-first order; from then on it draws no
\* key, writes no locale file, and what it puts in the editor is the call of
\* that key
C27_ReuseExistingKey ==
    [][/\ (xpc = "idle" /\ xpc' # "idle" /\ hasWorkspace /\ Trim(selection) # <<>>
             /\ ReusableKey(files, settingsFile, selectedText') # <<>>)
          => /\ xpc' = "chooseReuse"
             /\ xKey' = ReusableKey(files, settingsFile, selectedText')
       /\ xpc = "chooseReuse"
          => /\ files' = files
             /\ written' = <<>>
             /\ attempts' = 0
             /\ xKey' = xKey
             /\ outcome' = "true"
                   => replaced' = formatKeyCall(xKey, interpolationType')]_vars

\* "yo" is the value of a.b and of b in the base locale es: the selection
\* became m["a.b"]() and no file was written
C27_Witness ==
    /\ xpc = "done"
    /\ outcome = "true"
    /\ selectedText = <<"y", "o">>
    /\ xKey = K_ab
    /\ files["es"] = JsonFile(DTwice)
    /\ written = <<>>
    /\ attempts = 0
    /\ replaced = <<"m", "[", "\"", "a", ".", "b", "\"", "]", "(", ")">>


(***************************************************************************)
(* Generated keys                                                          *)
(***************************************************************************)
\* the base locale's document has the key
ExistsInBase(fs, sf, key) ==
    LET doc == loadTranslations(fs[baseLocaleOf(sf)])
    IN doc.t = "obj" /\ HasOwn(doc, key)

\* C28: the loop of generateUniqueKey draws at most ten candidates, and the
\* key it hands to the extraction is not a key of the base locale's document
C28_GeneratedKeyIsNew ==
    /\ attempts <= MaxKeyAttempts
    /\ xpc = "choose" => ~ExistsInBase(files, settingsFile, xKey)


(***************************************************************************)
(* A write that fails                                                      *)
(***************************************************************************)
\* C30: once a write of the extraction has failed, the extraction has
\* returned false, the selection is not replaced, every file written before
\* the failure holds the new key, and no step changes a locale file any more
C30_WriteFailure ==
    /\ [](failedAt # ""
            => /\ xpc = "done"
               /\ outcome = "false"
               /\ replaced = <<>>
               /\ \A i \in 1..Len(written) : KeyIn(files, written[i].locale, xKey))
    /\ [][failedAt # "" => (files' = files /\ written' = written)]_vars

\* the disk refused the write of es after en had been written: en holds the
\* key, fr, still to come in the list, does not
C30_Witness ==
    /\ failedAt = "es"
    /\ outcome = "false"
    /\ replaced = <<>>
    /\ WrittenLocales = <<"en">>
    /\ KeyIn(files, "en", xKey)
    /\ availableLocales(settingsFile) = <<"en", "es", "fr">>
    /\ ~KeyIn(files, "fr", xKey)


(***************************************************************************)
(* The call expression put in place of the selection                       *)
(***************************************************************************)
\* m.<key>()
DotForm(key) == <<"m", ".">> \o key \o <<"(", ")">>

\* m["<key>"]()
BracketForm(key) == <<"m", "[", "\"">> \o key \o <<"\"", "]", "(", ")">>

\* {<call>}
Interpolated(call) == <<"{">> \o call \o <<"}">>

\* the form the key asks for
CallForm(key) == IF IncludesDot(key) THEN BracketForm(key) ELSE DotForm(key)

\* C31 as stated: a replaced selection is the dot form of a flat key and
\* the bracket form of a key with a dot, and in a Svelte file that form is
\* wrapped in braces
C31_WrappedByFileKind ==
    outcome = "true"
        => /\ replaced \in {CallForm(xKey), Interpolated(CallForm(xKey))}
           /\ editorLanguage = "svelte" => replaced = Interpolated(CallForm(xKey))

\* C31 amended: the form is wrapped in braces exactly when the format
\* picked in the quick pick is the template format
C31_WrappedByChoice ==
    outcome = "true"
        => /\ interpolationType \in {"template", "code"}
           /\ replaced = IF interpolationType = "template"
                         THEN Interpolated(CallForm(xKey))
                         ELSE CallForm(xKey)

\* the nested key a.b, reused in a Svelte file with the template format
\* picked: the selection became {m["a.b"]()}
C31_Witness ==
    /\ outcome = "true"
    /\ editorLanguage = "svelte"
    /\ interpolationType = "template"
    /\ xKey = K_ab
    /\ replaced = <<"{", "m", "[", "\"", "a", ".", "b", "\"", "]", "(", ")", "}">>


(***************************************************************************)
(* LocaleService on a settings file that is missing or does not parse      *)
(***************************************************************************)
\* the fallback of getTranslationPathPattern
DefaultPathPattern == "./messages/{locale}.json"

CustomPathPattern == "./i18n/{locale}.json"

\* settings.json with plugin.inlang.messageFormat.pathPattern; p = "" is
\* an empty pathPattern
WithPathPattern(sf, p) ==
    [kind |-> sf.kind, baseLocale |-> sf.baseLocale, hasLocales |-> sf.hasLocales,
     locales |-> sf.locales, pathPattern |-> p]

\* a getTranslationPathPattern that returns the pathPattern it finds, if any
getTranslationPathPattern_NoFallback(sf) ==
    LET inlangSettings == loadInlangSettings(sf)
    IN IF inlangSettings.kind = "json" /\ "pathPattern" \in DOMAIN inlangSettings
       THEN inlangSettings.pathPattern
       ELSE "undefined"

\* LocaleService.getTranslationPathPattern
getTranslationPathPattern(sf) ==
    LET inlangSettings == loadInlangSettings(sf)
    IN IF /\ inlangSettings.kind = "json"
          /\ "pathPattern" \in DOMAIN inlangSettings
          /\ inlangSettings.pathPattern # ""
       THEN inlangSettings.pathPattern
       ELSE DefaultPathPattern

PatternSettings ==
    {MissingSettings, MalformedSettings,
     SettingsJson("es", TRUE, <<"en", "es">>),
     WithPathPattern(SettingsJson("es", TRUE, <<"en", "es">>), CustomPathPattern),
     WithPathPattern(SettingsJson("", FALSE, <<>>), CustomPathPattern),
     WithPathPattern(SettingsJson("fr", FALSE, <<>>), "")}

InitSettings ==
    /\ override \in Overrides
    /\ hasWorkspace \in BOOLEAN
    /\ settingsFile \in PatternSettings
    /\ files = [l \in LocaleCodes |-> MissingFile]
    /\ calls = <<>>
    /\ pc = "start"
    /\ currentLocale = ""
    /\ translations = Undefined
    /\ idx = 0
    /\ currentTranslation = Undefined
    /\ results = <<>>
    /\ published = <<>>
    /\ text = <<>>
    /\ scanned = <<>>
    /\ ActivatorIdle
    /\ LoopIdle
    /\ ExtractionIdle

\* what a resolution of the locale or of the path pattern leaves alone
settingsFrame == <<override, hasWorkspace, settingsFile, files, calls, pc,
                   translations, idx, currentTranslation, results, published,
                   scanVars, syncVars, loopVars, xpc, selection, selectedText,
                   xKey, attempts, interpolationType, otherIdx, written, failedAt,
                   outcome, replaced, editorLanguage>>

\* a call of getCurrentLocale()
ResolveLocale ==
    /\ currentLocale = ""
    /\ currentLocale' = getCurrentLocale(override, hasWorkspace, settingsFile)
    /\ UNCHANGED <<pathPattern, settingsFrame>>

\* a call of getTranslationPathPattern(workspacePath)
ResolvePathPattern ==
    /\ pathPattern = ""
    /\ pathPattern' = getTranslationPathPattern(settingsFile)
    /\ UNCHANGED <<currentLocale, settingsFrame>>

NextSettings == ResolveLocale \/ ResolvePathPattern

SpecSettings == InitSettings /\ [][NextSettings]_vars

\* C32: with a settings file that is missing or does not parse, the locale
\* resolved is that of the next tier (the configured locale, else "en") and
\* the path pattern resolved is the default one; with a settings file that
\* parses, both resolutions still return a value
C32_AbsentSettingsFallThrough ==
    /\ settingsFile.kind \in {"missing", "malformed"}
          => /\ currentLocale \in {"", IF ConfigGet(override) # ""
                                       THEN ConfigGet(override) ELSE "en"}
             /\ pathPattern \in {"", DefaultPathPattern}
    /\ currentLocale \in {"", "en", "es", "fr"}
    /\ pathPattern \in {"", DefaultPathPattern, CustomPathPattern}

\* settings.json does not parse, nothing is configured: "en" and the
\* default pattern
C32_Witness ==
    /\ settingsFile = MalformedSettings
    /\ override = ""
    /\ hasWorkspace
    /\ currentLocale = "en"
    /\ pathPattern = DefaultPathPattern


(***************************************************************************)
(* Failures inside a passive cycle                                         *)
(***************************************************************************)
\* the events whose handlers run cycles without the user asking for one
PassiveKinds == {"change", "timer", "save", "focus", "localeFile", "defaultLocale"}

\* a result is an annotation: one of the three statuses, with a text or
\* no value
IsAnnotation(r) ==
    /\ r.warningType \in {"null", "missingLocale", "noLocale"}
    /\ r.translationValue.t \in {"str", "null"}
    /\ r.warningType = "noLocale" => r.translationValue = JNull

\* C33: the handler of a passive event shows no message, and every cycle
\* a handler runs ends with one annotation per call site of its document;
\* when the file of the active locale cannot be loaded, none of them is a
\* value of the active locale
C33_PassiveCycleFailsSoft ==
    [][/\ lastEvent'.kind \in PassiveKinds => dialog' = ""
       /\ \A i \in 1..Len(ran') :
             /\ Len(ran'[i].results) = Len(DocCalls[ran'[i].doc])
             /\ \A j \in 1..Len(ran'[i].results) :
                   /\ IsAnnotation(ran'[i].results[j])
                   /\ files'[ran'[i].locale].kind # "json"
                         => ran'[i].results[j].warningType # "null"]_vars

\* es.json stopped parsing while a.js, whose locale is es, was shown: the
\* cycle of the watcher ends with an annotation found in another locale
C33_Witness ==
    /\ lastEvent.kind = "localeFile"
    /\ files["es"] = MalformedFile
    /\ dialog = ""
    /\ Len(ran) = 1
    /\ ran[1].locale = "es"
    /\ Len(ran[1].results) = 1
    /\ ran[1].results[1].warningType = "missingLocale"


(***************************************************************************)
(* The timer table and the timers of the runtime                           *)
(***************************************************************************)
\* every handler that touches the table, with the listeners disposed at
\* deactivation
NextTimers ==
    \/ /\ listening
       /\ \E d \in SourceDocs \cup {NotesDoc} : \E changes \in ChangeEvents :
             ChangeDocument(d, changes)
    \/ \E d \in SourceDocs : TimerFires(d)
    \/ /\ listening
       /\ \E d \in SourceDocs \cup {NotesDoc} : SaveDocument(d)
    \/ /\ listening
       /\ \E enabled \in BOOLEAN : SetRealtimeUpdates(enabled)
    \/ /\ listening
       /\ \E delay \in Delays : SetUpdateDelay(delay)
    \/ Deactivate
    \/ Tick

SpecTimers == InitDebounce /\ [][NextTimers]_vars

\* C35: the table has at most one entry per document, and its entries are
\* exactly the debounce timers that were set and have neither fired nor
\* been cancelled
C35_TableMatchesTimers ==
    /\ \A e1, e2 \in documentUpdateTimeouts : e1[1] = e2[1] => e1 = e2
    /\ documentUpdateTimeouts = liveTimers

\* a.js and b.ts each wait for their timer, set at different times
C35_Witness ==
    /\ TimeoutOf("a.js") # NoTimer
    /\ TimeoutOf("b.ts") # NoTimer
    /\ TimeoutOf("a.js").setAt # TimeoutOf("b.ts").setAt
    /\ Cardinality(liveTimers) = 2


(***************************************************************************)
(* Live updates of one visible document: edits change its text, the        *)
(* cycles scan the text they find                                          *)
(***************************************************************************)
MaxTextLen == 6

LiveDoc == "a.js"

\* m.a()
LiveText == <<"m", ".", "a", "(", ")">>

\* the texts a single-line edit inserts: a letter, or nothing (a deletion)
InsertedTexts == {<<>>, <<"x">>}

\* the offsets edited: the start of the line and the end of the key
EditOffsets == {0, 3}

\* the text after replacing `removed` characters at offset `at`
ApplyChange(t, at, removed, inserted) ==
    SubSeq(t, 1, at) \o inserted \o SubSeq(t, at + removed + 1, Len(t))

\* the key and the offsets of each call site
Sites(cs) == [i \in 1..Len(cs) |-> <<cs[i].methodName, cs[i].start, cs[i].end>>]

\* EditorService.processDocument on the text of a visible document
processText(d, cause, t, ov, sf, fs) ==
    LET found == findTranslationCalls(t)
    IN IF Len(found) = 0
       THEN [doc |-> d, cause |-> cause, locale |-> "", results |-> <<>>]
       ELSE LET cur == getCurrentLocale(ov, TRUE, sf)
                trs == loadTranslations(fs[cur])
            IN [doc |-> d, cause |-> cause, locale |-> cur,
                results |-> [i \in 1..Len(found) |->
                    ResolveOne(found[i], PassedTranslations(trs), sf, fs, cur)]]

\* the call sites a cycle publishes to the decorations and the CodeLens
\* provider: those of its results
PublishedBy(cycle) == [i \in 1..Len(cycle.results) |-> cycle.results[i].call]

\* a.js is open and visible with the text m.a(), and activation has
\* processed it
InitLive ==
    /\ override = Unset
    /\ files = [l \in LocaleCodes |-> IF l = "en" THEN JsonFile(D1) ELSE MissingFile]
    /\ realtimeUpdates = TRUE
    /\ updateDelay = 1
    /\ hasWorkspace = TRUE
    /\ settingsFile = SettingsJson("es", TRUE, <<"en", "es">>)
    /\ calls = <<>>
    /\ pc = "start"
    /\ currentLocale = ""
    /\ translations = Undefined
    /\ idx = 0
    /\ currentTranslation = Undefined
    /\ results = <<>>
    /\ published = <<>>
    /\ text = LiveText
    /\ scanned = PublishedBy(processText(LiveDoc, "activate", text, override,
                                         settingsFile, files))
    /\ now = 0
    /\ documentUpdateTimeouts = {}
    /\ liveTimers = {}
    /\ activeDoc = LiveDoc
    /\ sidebarFile = LiveDoc
    /\ sidebarKeys = getTranslationDataLength(LiveDoc, settingsFile, files)
    /\ clearTimeout = NoTimer
    /\ listening = TRUE
    /\ lastEvent = NoEvent
    /\ dialog = ""
    /\ ran = <<>>
    /\ LoopIdle
    /\ ExtractionIdle

liveFrame == <<hasWorkspace, settingsFile, calls, pc, currentLocale, translations,
               idx, currentTranslation, results, published, listening, loopVars,
               extractVars, realtimeUpdates, updateDelay, activeDoc, override, files>>

\* a single-line edit of the visible document, and onDidChangeTextDocument
\* for it
EditText(at, removed, inserted) ==
    /\ at + removed <= Len(text)
    /\ removed + Len(inserted) > 0
    /\ Len(text) - removed + Len(inserted) <= MaxTextLen
    /\ text' = ApplyChange(text, at, removed, inserted)
    /\ dialog' = ""
    /\ lastEvent' = Event("change", LiveDoc, <<Change(0, removed, inserted)>>, "")
    /\ ran' = <<>>
    /\ IF /\ realtimeUpdates
          /\ isSupportedDocument(LiveDoc)
          /\ shouldUpdateForChange(<<Change(0, removed, inserted)>>)
       THEN /\ TimeoutOf(LiveDoc).n < MaxBurst
            /\ now + updateDelay <= MaxTime
            /\ LET handle == [setAt |-> now, delay |-> updateDelay,
                              n |-> TimeoutOf(LiveDoc).n + 1]
               IN /\ liveTimers' = (liveTimers \ {<<LiveDoc, TimeoutOf(LiveDoc)>>})
                                       \cup {<<LiveDoc, handle>>}
                  /\ documentUpdateTimeouts' =
                         MapSet(documentUpdateTimeouts, LiveDoc, handle)
       ELSE UNCHANGED <<liveTimers, documentUpdateTimeouts>>
    /\ UNCHANGED <<now, scanned, sidebarFile, sidebarKeys, clearTimeout, liveFrame>>

\* a due timer of the visible document leaves the runtime, and its callback
\* deletes the entry of the table
TimerExpires ==
    /\ \E handle \in DueTimers(LiveDoc) :
          /\ liveTimers' = liveTimers \ {<<LiveDoc, handle>>}
          /\ lastEvent' = Event("timer", LiveDoc, <<handle>>, "")
    /\ documentUpdateTimeouts' = MapDelete(documentUpdateTimeouts, LiveDoc)

\* the debounce callback leaving its entry in the table
LiveTimerFires_KeepsEntry ==
    /\ \E handle \in DueTimers(LiveDoc) :
          /\ liveTimers' = liveTimers \ {<<LiveDoc, handle>>}
          /\ dialog' = ""
          /\ lastEvent' = Event("timer", LiveDoc, <<handle>>, "")
    /\ UNCHANGED documentUpdateTimeouts
    /\ IF realtimeUpdates
       THEN /\ ran' = <<processText(LiveDoc, "debounce", text, override,
                                    settingsFile, files)>>
            /\ scanned' = PublishedBy(ran'[1])
            /\ sidebarFile' = LiveDoc
            /\ sidebarKeys' = TranslationDataLength(findTranslationCalls(text),
                                                    settingsFile, files)
            /\ clearTimeout' = NoTimer
       ELSE /\ ran' = <<>>
            /\ UNCHANGED <<scanned, sidebarFile, sidebarKeys, clearTimeout>>
    /\ UNCHANGED <<now, text, liveFrame>>

\* the setTimeout callback of debounceDocumentUpdate for the visible
\* document: the cycle reads the text as it is now
LiveTimerFires ==
    /\ TimerExpires
    /\ dialog' = ""
    /\ IF realtimeUpdates
       THEN /\ ran' = <<processText(LiveDoc, "debounce", text, override,
                                    settingsFile, files)>>
            /\ scanned' = PublishedBy(ran'[1])
            /\ sidebarFile' = LiveDoc
            /\ sidebarKeys' = TranslationDataLength(findTranslationCalls(text),
                                                    settingsFile, files)
            /\ clearTimeout' = NoTimer
       ELSE /\ ran' = <<>>
            /\ UNCHANGED <<scanned, sidebarFile, sidebarKeys, clearTimeout>>
    /\ UNCHANGED <<now, text, liveFrame>>

\* onDidSaveTextDocument for the visible document
LiveSave ==
    /\ dialog' = ""
    /\ lastEvent' = Event("save", LiveDoc,
                         IF TimeoutOf(LiveDoc) # NoTimer
                         THEN <<TimeoutOf(LiveDoc)>> ELSE <<>>, "")
    /\ IF TimeoutOf(LiveDoc) # NoTimer
       THEN /\ liveTimers' = liveTimers \ {<<LiveDoc, TimeoutOf(LiveDoc)>>}
            /\ documentUpdateTimeouts' = MapDelete(documentUpdateTimeouts, LiveDoc)
       ELSE UNCHANGED <<liveTimers, documentUpdateTimeouts>>
    /\ ran' = <<processText(LiveDoc, "save", text, override, settingsFile, files)>>
    /\ scanned' = PublishedBy(ran'[1])
    /\ sidebarFile' = LiveDoc
    /\ sidebarKeys' = TranslationDataLength(findTranslationCalls(text),
                                            settingsFile, files)
    /\ clearTimeout' = NoTimer
    /\ UNCHANGED <<now, text, liveFrame>>

NextLive ==
    \/ \E at \in EditOffsets : \E removed \in 0..1 : \E inserted \in InsertedTexts :
          EditText(at, removed, inserted)
    \/ LiveTimerFires
    \/ LiveSave
    \/ Tick

SpecLive == InitLive /\ [][NextLive]_vars

\* the visible document waits for no debounce timer
Idle == TimeoutOf(LiveDoc) = NoTimer

\* C36: whenever the visible document is Idle, the call sites last published
\* for it have the keys and offsets of a scan of its current text
C36_PublishedMatchesText ==
    Idle => Sites(scanned) = Sites(findTranslationCalls(text))

\* time passes, and the event loop runs a timer callback once it is due
\* (the steps that satisfy TimerExpires are the steps of LiveTimerFires)
SpecLiveFair ==
    /\ InitLive
    /\ [][NextLive]_vars
    /\ WF_<<liveTimers, documentUpdateTimeouts, lastEvent>>(TimerExpires)
    /\ WF_vars(Tick)

\* C37: live updates are on and the document is visible. Once a relevant
\* mutation has stored a timer for the document, then, unless a save cancels
\* it, a timer of the document expires: its cycle runs on the text as it
\* then is, and the document is Idle with no timer entry left
C37_RelevantChangeLeadsToCycle ==
    (TimeoutOf(LiveDoc) # NoTimer)
        ~> /\ Idle
           /\ liveTimers = {}
           /\ \/ lastEvent.kind = "save"
              \/ /\ lastEvent.kind = "timer"
                 /\ Len(ran) = 1
                 /\ ran[1].cause = "debounce"
                 /\ PublishedBy(ran[1]) = scanned
                 /\ Sites(scanned) = Sites(findTranslationCalls(text))

\* the "(" of m.a() was deleted and an "x" typed while the timer waited:
\* the cycle of the timer found no call site in m.ax)
C37_Witness ==
    /\ lastEvent.kind = "timer"
    /\ Idle
    /\ text = <<"m", ".", "a", "x", ")">>
    /\ scanned = <<>>
    /\ ran # <<>>


(***************************************************************************)
(* Extraction and scanning                                                 *)
(***************************************************************************)
\* C38: scanning the call expression an extraction wrote into the source
\* yields exactly one call site, and its key is the key of the extraction
C38_InsertedCallScansToKey ==
    outcome = "true"
        => /\ Len(findTranslationCalls(replaced)) = 1
           /\ findTranslationCalls(replaced)[1].methodName = xKey


(***************************************************************************)
(* The entries a locale file had before an extraction                      *)
(***************************************************************************)
\* the entries of a locale file, each with its dot-joined key
EntriesOf(file) ==
    IF file.kind = "json" /\ file.doc.t = "obj"
    THEN {Leaves(file.doc, <<>>, 1)[i] : i \in 1..Len(Leaves(file.doc, <<>>, 1))}
    ELSE {}

\* C39: no write of an extraction changes an entry a locale file already
\* had: every key of the file keeps its value, whatever that value was and
\* whichever locale the file belongs to
C39_ExistingEntriesKept ==
    [][\A l \in LocaleCodes : EntriesOf(files[l]) \subseteq EntriesOf(files'[l])]_vars

====
